---------------------------- MODULE Spec2Model ----------------------------
(***************************************************************************)
(* Security LLM proxy: the request pipeline of ProxyService.forwardRequest *)
(* with its collaborators (RateLimitingService, CacheService,              *)
(* LoggingService, GlobalExceptionFilter).                                 *)
(*                                                                         *)
(* Specifications:                                                         *)
(*   SpecRL    the token bucket alone, under a millisecond clock           *)
(*   SpecBurst the bucket under a run of POSTs to a chat endpoint          *)
(*   Spec      the pipeline, two requests in flight                        *)
(***************************************************************************)
EXTENDS Integers, Sequences, FiniteSets, TLC

VARIABLES
    now,             \* Date.now(), milliseconds
    rateLimitStore,  \* RateLimitingService.rateLimitStore : ip -> RateLimitInfo
    rlConfig,        \* RateLimitingService: maxTokens, refillRate, refillInterval
    win,             \* observer: one time window and the cost debited inside it
    burst,           \* observer: calls issued / passed by the identity under test
    flags,           \* ConfigService: the ENABLE_* feature flags
    req,             \* the forwardRequest calls in flight, one record per request
    cacheStore,      \* the cache manager's store : key -> cached response
    pol,             \* one call of shouldBlockFinancialContent and its result
    cacheStats,      \* CacheService.stats: hits, misses, size, totalRequests
    gets,            \* the CacheService.get calls in flight
    hdr,             \* one answer: the headers received and the headers set
    outb,            \* one call of prepareHeaders and the request options built from it
    audit,           \* LoggingService: callers, setImmediate queue, the repository, stderr
    mon,             \* MonitoringGateway: timer, snapshot jobs, activity series; the log table
    env,             \* process.env: the ENABLE_* settings as written in .env
    stat,            \* the answer of the last getRateLimitStatus call
    call,            \* the last isAllowed call: identity, cost and answer
    emit,            \* whether server.emit of the monitoring gateway returns or throws
    sq,              \* the log table by action and provider, and one call of getStatistics
    san              \* one call of sanitizeData, and the same call made again

vars ==
    <<now, rateLimitStore, rlConfig, win, burst, flags, req, cacheStore, pol,
      cacheStats, gets, hdr, outb, audit, mon, env, stat, call, emit, sq, san>>

\* the variables of the specifications of single services
unitVars == <<pol, cacheStats, gets, hdr, outb, audit, mon, env, stat, call, emit, sq, san>>

-----------------------------------------------------------------------------
(* Bounds of the model *)

MaxNowRL == 6            \* SpecRL runs the clock up to this instant (ms)
MaxNowBurst == 2300      \* SpecBurst runs the clock up to this instant (ms)
MaxCalls == 12           \* SpecBurst issues at most this many POSTs

\* SpecRL: RATE_LIMIT_MAX_TOKENS, RATE_LIMIT_REFILL_RATE and
\* RATE_LIMIT_REFILL_INTERVAL as set in the environment
CfgMaxTokens == 10
CfgRefillRate == 2
CfgRefillInterval == 4

TickStepsRL == {1, 2}
TickStepsBurst == {150, 1000}

Identities == {"X", "Y"}

\* Spec: the requests in flight and the instants the clock is read at
Reqs == {"r1", "r2"}
Instants == {0, 1000, 2000, 7000, 8000, 9000}

-----------------------------------------------------------------------------
(* RateLimitingService *)

\* the defaults of the constructor
MAX_TOKENS == 100
REFILL_RATE == 10
REFILL_INTERVAL == 1000

DefaultConfig ==
    [maxTokens |-> MAX_TOKENS, refillRate |-> REFILL_RATE,
     refillInterval |-> REFILL_INTERVAL]

EnvConfig ==
    [maxTokens |-> CfgMaxTokens, refillRate |-> CfgRefillRate,
     refillInterval |-> CfgRefillInterval]

Min(a, b) == IF a < b THEN a ELSE b

Paths == {"/v1/chat/completions", "/v1/messages", "/v1/models"}
Methods == {"GET", "POST"}

IsChatPath(path) == path \in {"/v1/chat/completions", "/v1/messages"}

\* a variant that forgets to double the cost of a POST
getTokensRequiredNoDouble(path, method) ==
    IF IsChatPath(path) THEN 5 ELSE 1

getTokensRequired(path, method) ==
    LET base == IF IsChatPath(path) THEN 5 ELSE 1
    IN  IF method = "POST" THEN base * 2 ELSE base

\* rateLimitStore.get(ip) || { tokens: maxTokens, lastRefill: now }
InfoOf(store, ip, t) ==
    IF ip \in DOMAIN store THEN store[ip]
    ELSE [tokens |-> rlConfig.maxTokens, lastRefill |-> t]

\* a variant that refills a whole interval's tokens on any elapsed time
TokensToAddCeil(timeElapsed) ==
    ((timeElapsed * rlConfig.refillRate) + rlConfig.refillInterval - 1)
        \div rlConfig.refillInterval

\* Math.floor((timeElapsed / refillInterval) * refillRate)
TokensToAdd(timeElapsed) ==
    (timeElapsed * rlConfig.refillRate) \div rlConfig.refillInterval

\* a variant that dates the refill one interval back
RefilledBackdated(info, t) ==
    LET add == TokensToAdd(t - info.lastRefill)
    IN  IF add > 0
        THEN [tokens |-> Min(rlConfig.maxTokens, info.tokens + add),
              lastRefill |-> t - rlConfig.refillInterval]
        ELSE info

\* a variant without the cap at maxTokens
RefilledNoCap(info, t) ==
    LET add == TokensToAdd(t - info.lastRefill)
    IN  IF add > 0
        THEN [tokens |-> info.tokens + add, lastRefill |-> t]
        ELSE info

\* the refill step of isAllowed
Refilled(info, t) ==
    LET add == TokensToAdd(t - info.lastRefill)
    IN  IF add > 0
        THEN [tokens |-> Min(rlConfig.maxTokens, info.tokens + add), lastRefill |-> t]
        ELSE info

\* the value isAllowed returns
isAllowedResult(store, ip, cost, t) ==
    Refilled(InfoOf(store, ip, t), t).tokens >= cost

\* Map.set
MapSet(store, k, v) ==
    [x \in (DOMAIN store) \cup {k} |-> IF x = k THEN v ELSE store[x]]

\* a variant that debits nothing
isAllowedStoreNoDebit(store, ip, cost, t) ==
    MapSet(store, ip, Refilled(InfoOf(store, ip, t), t))

\* a variant that stores the bucket as it was read when the call is rejected
isAllowedStoreNoAdvance(store, ip, cost, t) ==
    LET info == Refilled(InfoOf(store, ip, t), t)
    IN  IF info.tokens >= cost
        THEN MapSet(store, ip, [info EXCEPT !.tokens = @ - cost])
        ELSE MapSet(store, ip, InfoOf(store, ip, t))

\* the store isAllowed leaves behind
isAllowedStore(store, ip, cost, t) ==
    LET info == Refilled(InfoOf(store, ip, t), t)
    IN  IF info.tokens >= cost
        THEN MapSet(store, ip, [info EXCEPT !.tokens = @ - cost])
        ELSE MapSet(store, ip, info)

-----------------------------------------------------------------------------
(* Exceptions and GlobalExceptionFilter *)

\* An exception as the filter sees it: getStatus(), and getResponse().error
\* (errorTruthy: the response has a truthy error member; code: error.code,
\* "" when undefined).
RateLimitedException ==
    [type |-> "HttpException", status |-> 429, errorTruthy |-> TRUE, code |-> "",
     details |-> {}]
TimeBlockedException ==
    [type |-> "HttpException", status |-> 403, errorTruthy |-> TRUE,
     code |-> "TIME_BLOCKED", details |-> {}]
\* error.details.detected_types are the types the constructor is given
SensitiveDataException(detectedTypes) ==
    [type |-> "HttpException", status |-> 403, errorTruthy |-> TRUE,
     code |-> "SENSITIVE_DATA_BLOCKED", details |-> detectedTypes]
FinancialContentException ==
    [type |-> "HttpException", status |-> 403, errorTruthy |-> TRUE,
     code |-> "FINANCIAL_BLOCKED", details |-> {}]
\* new HttpException('Proxy request failed', INTERNAL_SERVER_ERROR)
ProxyFailedException ==
    [type |-> "HttpException", status |-> 500, errorTruthy |-> FALSE, code |-> "",
     details |-> {}]

\* GlobalExceptionFilter.catch: the status, the code and the detected types
\* among the details of the error body
FilterCatch(exception) ==
    IF exception.type = "HttpException"
    THEN [status |-> exception.status,
          code |-> IF exception.errorTruthy
                   THEN (IF exception.code # "" THEN exception.code ELSE "HTTP_ERROR")
                   ELSE "HTTP_ERROR",
          details |-> IF exception.errorTruthy THEN exception.details ELSE {}]
    ELSE IF exception.type = "Error"
    THEN [status |-> 500, code |-> "ERROR", details |-> {}]
    ELSE [status |-> 500, code |-> "INTERNAL_ERROR", details |-> {}]

-----------------------------------------------------------------------------
(* Request bodies, the detectors' answers, upstream replies *)

\* JSON bodies of inbound requests; "null" is the body of a GET or HEAD
Bodies == {"benign", "email", "bank", "emailbank", "numericPrompt"}

\* what the detection LLM answers for the string leaves of the body
SensitiveTypes(body) ==
    IF body = "email" THEN {"email"}
    ELSE IF body = "emailbank" THEN {"email", "iban"}
    ELSE {}

\* extractContentForClassification(body).trim(): the text is kept as its
\* length and what the three keyword lists find in it
extractContentForClassification(body) ==
    IF body = "null"
    THEN [len |-> 0, kw |-> FALSE, borderlineKw |-> FALSE, clearKw |-> FALSE]
    ELSE IF body \in {"bank", "emailbank"}
    THEN [len |-> 40, kw |-> TRUE, borderlineKw |-> FALSE, clearKw |-> TRUE]
    ELSE [len |-> 40, kw |-> FALSE, borderlineKw |-> FALSE, clearKw |-> FALSE]

\* hasFinancialKeywords on the extracted content
hasFinancialKeywords(content) == content.kw

\* isBorderlineCase: a borderline keyword and no clear financial keyword
isBorderlineCase(content) == content.borderlineKw /\ ~content.clearKw

\* what a classification call can give: a reply, or "error" when it throws
Replies == {"FINANCIAL", "NON_FINANCIAL", "UNSURE", "error"}

\* a variant that confirms unless the second pass replies NON_FINANCIAL
verifyFinancialContentLenient(content, reply2) == reply2 # "NON_FINANCIAL"

\* verifyFinancialContent: the stricter second pass, false when it throws
verifyFinancialContent(content, reply2) == reply2 = "FINANCIAL"

\* a variant that answers true when the classification call throws
checkFinancialContentFailClosed(content, reply1, reply2, strictMode) ==
    IF hasFinancialKeywords(content) THEN [result |-> TRUE, calls |-> 0]
    ELSE IF reply1 = "error" THEN [result |-> TRUE, calls |-> 1]
    ELSE IF reply1 = "FINANCIAL" /\ strictMode /\ isBorderlineCase(content)
    THEN [result |-> verifyFinancialContent(content, reply2), calls |-> 2]
    ELSE [result |-> reply1 = "FINANCIAL", calls |-> 1]

\* checkFinancialContent: the result and the number of classifier calls made
checkFinancialContent(content, reply1, reply2, strictMode) ==
    IF hasFinancialKeywords(content) THEN [result |-> TRUE, calls |-> 0]
    ELSE IF reply1 = "error"
    THEN [result |-> hasFinancialKeywords(content), calls |-> 1]
    ELSE IF reply1 = "FINANCIAL" /\ strictMode /\ isBorderlineCase(content)
    THEN [result |-> verifyFinancialContent(content, reply2), calls |-> 2]
    ELSE [result |-> reply1 = "FINANCIAL", calls |-> 1]

MIN_CONTENT_LENGTH == 10
MAX_CONTENT_LENGTH == 1000

\* a variant that classifies texts of up to 2000 characters
shouldBlockFinancialContentLong(content, policyEnabled, reply1, reply2, strictMode) ==
    IF content.len < MIN_CONTENT_LENGTH THEN [result |-> FALSE, calls |-> 0]
    ELSE IF ~policyEnabled THEN [result |-> FALSE, calls |-> 0]
    ELSE IF content.len > 2000 THEN [result |-> FALSE, calls |-> 0]
    ELSE checkFinancialContent(content, reply1, reply2, strictMode)

\* PolicyEnforcementService.shouldBlockFinancialContent on the extracted,
\* trimmed content
shouldBlockFinancialContent(content, policyEnabled, reply1, reply2, strictMode) ==
    IF content.len < MIN_CONTENT_LENGTH THEN [result |-> FALSE, calls |-> 0]
    ELSE IF ~policyEnabled THEN [result |-> FALSE, calls |-> 0]
    ELSE IF content.len > MAX_CONTENT_LENGTH THEN [result |-> FALSE, calls |-> 0]
    ELSE checkFinancialContent(content, reply1, reply2, strictMode)

\* extractContentForClassification(body).trim() throws a TypeError when
\* body.prompt is not a string
ExtractThrows(body) == body = "numericPrompt"

\* the request is sent with the full chat shape {"model":..,"messages":[..]}
\* except numericPrompt, {"prompt":123}
Base64Prefix(body) ==
    IF body = "null" THEN "bnVsbA=="
    ELSE IF body = "numericPrompt" THEN "eyJwcm9tcHQiOjEyM30="
    ELSE "eyJtb2RlbCI6Im0iLCJtZXNzYWdlcyI6"

\* CacheService.generateCacheKey
generateCacheKey(provider, path, sanitizedBody) ==
    <<provider, path, Base64Prefix(sanitizedBody)>>

\* what an upstream can answer: a status and a body that is compact JSON,
\* indented JSON or plain text
UpstreamReplies ==
    { [status |-> 200, raw |-> "{\"id\":1}"],
      [status |-> 200, raw |-> "{ \"id\": 1 }"],
      [status |-> 404, raw |-> "{\"id\":1}"],
      [status |-> 500, raw |-> "upstream failure"] }

\* makeNativeRequest: JSON.parse(responseData), the raw text kept when it fails
ParseBody(raw) ==
    IF raw \in {"{\"id\":1}", "{ \"id\": 1 }"}
    THEN [kind |-> "object", text |-> "{\"id\":1}"]
    ELSE [kind |-> "string", text |-> raw]

\* a variant that answers with a fixed text
SendBodyFixed(data) == "{}"

\* res.send(data): a string as it is, an object through JSON.stringify
SendBody(data) == data.text

\* the compact serialisation of the upstream body's JSON value, the raw text
\* when it is not JSON
Reserialised(raw) ==
    IF raw = "{ \"id\": 1 }" THEN "{\"id\":1}" ELSE raw

-----------------------------------------------------------------------------
(* ProxyService helpers *)

AllEnabled ==
    [rateLimiting |-> TRUE, timeBlocking |-> TRUE, sanitization |-> TRUE,
     policy |-> TRUE, caching |-> TRUE]

getSeconds(t) == (t \div 1000) % 60

\* a variant that leaves second 8 out
blockedSecondsShort == {1, 2, 7}

blockedSeconds == {1, 2, 7, 8}

shouldBlockByTime(t) ==
    IF ~flags.timeBlocking THEN FALSE
    ELSE getSeconds(t) \in blockedSeconds

shouldSanitizeEndpoint(path) ==
    IF ~flags.sanitization THEN FALSE ELSE IsChatPath(path)

shouldEnforcePolicy(path) ==
    IF ~flags.policy THEN FALSE ELSE IsChatPath(path)

\* a variant that ignores ENABLE_CACHING
shouldUseCacheAlways(path) == IsChatPath(path)

shouldUseCache(path) ==
    IF ~flags.caching THEN FALSE ELSE IsChatPath(path)

\* the finally block's list of actions that were logged where they were decided
blockedActions ==
    {"BLOCKED_TIME", "BLOCKED_FINANCIAL", "BLOCKED_RATE_LIMIT",
     "BLOCKED_SENSITIVE_DATA"}

EmptyStore == [x \in {} |-> 0]
NoPol ==
    [done |-> FALSE,
     content |-> [len |-> 0, kw |-> FALSE, borderlineKw |-> FALSE,
                  clearKw |-> FALSE],
     policyEnabled |-> TRUE, strictMode |-> TRUE, reply1 |-> "NON_FINANCIAL",
     reply2 |-> "NON_FINANCIAL", result |-> FALSE, calls |-> 0]
GetIds == {"g1", "g2"}
NoStats == [hits |-> 0, misses |-> 0, size |-> 0, totalRequests |-> 0]
IdleGet == [pc |-> "idle", key |-> "", found |-> "null", result |-> "null"]
NoHdr == [pc |-> "idle", from |-> "", upstream |-> {}, sent |-> {}]
NoOutb == [pc |-> "idle", provider |-> "", inbound |-> <<>>, sent |-> {}]
NoAudit ==
    [calls |-> [r \in Reqs |->
                  [action |-> "", status |-> 0, logged |-> FALSE, answered |-> 0]],
     immediates |-> <<>>, saved |-> {}, stderr |-> 0]
\* no ENABLE_* variable is set
NoEnv ==
    [rateLimiting |-> "unset", timeBlocking |-> "unset", sanitization |-> "unset",
     policy |-> "unset", caching |-> "unset"]
NoCall == [n |-> 0, op |-> "", ip |-> "", cost |-> 0, ok |-> FALSE]
NoStat == [n |-> 0, ip |-> "", remaining |-> 0, resetTime |-> 0, maxTokens |-> 0]
\* a JSON value: a string, number or null leaf (text), an array (kids) or an
\* object (keys in insertion order, kids their values)
Leaf(kind, text) == [kind |-> kind, text |-> text, kids |-> <<>>, keys |-> <<>>]
Arr(kids) == [kind |-> "array", text |-> "", kids |-> kids, keys |-> <<>>]
Obj(keys, kids) == [kind |-> "object", text |-> "", kids |-> kids, keys |-> keys]
SanStrings == {"", "hello", "a@b.c"}
NoSanResult == [input |-> Leaf("null", ""), thrown |-> {}, value |-> Leaf("null", ""),
                calls |-> <<>>]
NoSan ==
    [pc |-> "idle", data |-> Leaf("null", ""),
     answers |-> [t \in SanStrings |-> "none"],
     result |-> NoSanResult, again |-> NoSanResult]
\* Object.values(RequestAction), in the order of the enum
RequestActionValues ==
    <<"PROXIED", "BLOCKED_TIME", "BLOCKED_FINANCIAL", "BLOCKED_RATE_LIMIT",
      "BLOCKED_SENSITIVE_DATA", "SERVED_FROM_CACHE">>
NoSq ==
    [rows |-> {}, pc |-> "idle", i |-> 0, total |-> 0,
     byAction |-> [a \in {} |-> 0], byProvider |-> [p \in {} |-> 0]]
MonJobs == {"j1", "j2"}
IdleJob == [pc |-> "idle", kind |-> "", tick |-> 0, total |-> 0]
NoMon ==
    [rows |-> 0, saves |-> 0, resets |-> 0, connects |-> 0, ticks |-> 0,
     jobs |-> [j \in MonJobs |-> IdleJob],
     requestActivityData |-> <<>>, lastTotalRequests |-> 0,
     emitted |-> [tick |-> 0, total |-> 0]]
\* the single services before their first call
ServicesInit ==
    /\ pol = NoPol
    /\ cacheStats = NoStats
    /\ gets = [g \in GetIds |-> IdleGet]
    /\ hdr = NoHdr
    /\ outb = NoOutb
    /\ audit = NoAudit
    /\ mon = NoMon
    /\ stat = NoStat
    /\ call = NoCall
    /\ sq = NoSq
    /\ san = NoSan

UnitInit ==
    /\ ServicesInit
    /\ env = NoEnv
    /\ emit = "ok"

NoWin == [open |-> FALSE, start |-> 0, sum |-> 0, ip |-> ""]
NoBurst == [issued |-> 0, passed |-> 0, first |-> 0, lastCall |-> 0, status |-> 0]

-----------------------------------------------------------------------------
(* ProxyService.forwardRequest *)

PipeIdentities == {"X"}
Providers == {"openai"}
PipePaths == {"/v1/chat/completions", "/v1/models"}

CACHE_TTL == 300

NoUpstream ==
    [status |-> 0, raw |-> "", data |-> [kind |-> "string", text |-> ""]]
NoResponse == [status |-> 0, code |-> "", body |-> "", details |-> {}]

IdleReq ==
    [pc |-> "idle", ip |-> "", provider |-> "", method |-> "", path |-> "",
     body |-> "null", action |-> "PROXIED", errorMessage |-> "",
     sanitizedBody |-> "null", upstream |-> NoUpstream, response |-> NoResponse,
     trail |-> <<>>, logs |-> <<>>, detected |-> {}, faults |-> {},
     sent |-> "none"]

\* a call of a collaborator, in the order the calls are made
Called(q, what) == [q EXCEPT !.trail = Append(@, what)]

\* loggingService.logRequest(provider, payload, action, path, .., errorMessage)
Logged(q, payload, action, errorMessage) ==
    [q EXCEPT !.logs = Append(@, [action |-> action,
                                  errorMessage |-> errorMessage,
                                  payload |-> payload]),
              !.trail = Append(@, "log")]

\* monitoringGateway.broadcastRequestEvent: server.emit publishes the event,
\* or throws (the gateway has no server)
Broadcast(q) == Called(q, IF emit = "throws" THEN "emitThrows" ELSE "event")

\* the finally block: log the request unless its action is a blocked one
\* (sanitizedBody || body: both are null together)
Finally(q) ==
    IF q.action \notin blockedActions
    THEN Logged(q, q.sanitizedBody, q.action, q.errorMessage)
    ELSE q

\* throw of an HttpException inside the try block: the catch clause re-throws
\* it, the finally block runs, GlobalExceptionFilter answers
Thrown(q, exception) ==
    LET f == FilterCatch(exception)
    IN  [Finally(q) EXCEPT !.pc = "done",
                           !.response = [status |-> f.status, code |-> f.code,
                                         body |-> "error",
                                         details |-> f.details]]

\* a variant whose catch clause does not record the cause
FailedNoCause(q, cause) ==
    Thrown([q EXCEPT !.action = "PROXIED"], ProxyFailedException)

\* any other error inside the try block: the catch clause records the cause
\* and throws HttpException('Proxy request failed', 500)
Failed(q, cause) ==
    Thrown([q EXCEPT !.errorMessage = cause, !.action = "PROXIED"],
           ProxyFailedException)

\* the statements that follow a broadcast inside the try block run when
\* server.emit returned; when it threw, the catch clause takes over
AfterBroadcast(q, next) ==
    IF emit = "throws"
    THEN Failed(q, "Cannot read properties of undefined (reading 'emit')")
    ELSE next

Blocked(q, action, message, payload) ==
    Broadcast(Logged([q EXCEPT !.action = action, !.errorMessage = message],
                     payload, action, message))

\* a variant that does not throw after a rate-limit rejection
RateLimitRejectNoThrow(q) ==
    [Blocked(q, "BLOCKED_RATE_LIMIT", "Request blocked due to rate limiting",
             q.body) EXCEPT !.pc = "timeGate"]

RateLimitReject(q) ==
    LET b == Blocked(q, "BLOCKED_RATE_LIMIT",
                     "Request blocked due to rate limiting", q.body)
    IN  AfterBroadcast(b, Thrown(b, RateLimitedException))

\* a variant that does not throw after a time-gate rejection
TimeRejectNoThrow(q) ==
    [Blocked(q, "BLOCKED_TIME", "Request blocked due to time-based policy",
             q.body) EXCEPT !.pc = "sanitize"]

TimeReject(q) ==
    LET b == Blocked(q, "BLOCKED_TIME",
                     "Request blocked due to time-based policy", q.body)
    IN  AfterBroadcast(b, Thrown(b, TimeBlockedException))

\* a variant that does not throw after a detection
SensitiveRejectNoThrow(q, detectedTypes) ==
    [Blocked(q, "BLOCKED_SENSITIVE_DATA",
             "Request blocked due to sensitive data detection", q.body)
        EXCEPT !.pc = "policy"]

SensitiveReject(q, detectedTypes) ==
    LET b == Blocked(q, "BLOCKED_SENSITIVE_DATA",
                     "Request blocked due to sensitive data detection", q.body)
    IN  AfterBroadcast(b, Thrown(b, SensitiveDataException(detectedTypes)))

FinancialReject(q) ==
    LET b == Blocked(q, "BLOCKED_FINANCIAL",
                     "Request blocked due to financial content policy",
                     q.sanitizedBody)
    IN  AfterBroadcast(b, Thrown(b, FinancialContentException))

\* the cache-hit branch: log, broadcast, answer from the cache, return;
\* the finally block runs after the return
CacheHit(q, cached) ==
    LET q1 == [q EXCEPT !.action = "SERVED_FROM_CACHE"]
        q2 == Broadcast(Logged(q1, q1.sanitizedBody, q1.action, ""))
        q3 == Called([q2 EXCEPT !.response =
                        [status |-> cached.status, code |-> "",
                         body |-> SendBody(cached.data), details |-> {}]],
                   "respond")
    IN  AfterBroadcast(q2, [Finally(q3) EXCEPT !.pc = "done"])

\* the controller hands the request to forwardRequest
Arrive(r) ==
    /\ req[r].pc = "idle"
    /\ \E ip \in PipeIdentities, provider \in Providers, method \in Methods,
          path \in PipePaths, body \in Bodies \cup {"null"} :
          /\ (method = "GET") <=> (body = "null")
          /\ IsChatPath(path) \/ body \in {"null", "benign"}
          /\ req' = [req EXCEPT ![r] =
                        [IdleReq EXCEPT !.pc = "rateLimit", !.ip = ip,
                                        !.provider = provider, !.method = method,
                                        !.path = path, !.body = body,
                                        !.sanitizedBody = body]]
    /\ UNCHANGED <<now, rateLimitStore, rlConfig, win, burst, flags, cacheStore, unitVars>>

\* Phase 1: rate limiting
RateLimitStage(r) ==
    LET q == req[r]
        cost == getTokensRequired(q.path, q.method)
    IN  /\ q.pc = "rateLimit"
        /\ IF flags.rateLimiting
           THEN /\ rateLimitStore' = isAllowedStore(rateLimitStore, q.ip, cost, now)
                /\ req' = [req EXCEPT ![r] =
                            IF isAllowedResult(rateLimitStore, q.ip, cost, now)
                            THEN [Called(q, "isAllowed") EXCEPT !.pc = "timeGate"]
                            ELSE RateLimitReject(Called(q, "isAllowed"))]
           ELSE /\ req' = [req EXCEPT ![r].pc = "timeGate"]
                /\ UNCHANGED rateLimitStore
        /\ UNCHANGED <<now, rlConfig, win, burst, flags, cacheStore, unitVars>>

\* Phase 2: time-based blocking
TimeGateStage(r) ==
    LET q == req[r]
    IN  /\ q.pc = "timeGate"
        /\ req' = [req EXCEPT ![r] =
                    IF shouldBlockByTime(now)
                    THEN TimeReject(Called(q, "clock"))
                    ELSE [Called(q, "clock") EXCEPT !.pc = "sanitize"]]
        /\ UNCHANGED <<now, rateLimitStore, rlConfig, win, burst, flags, cacheStore, unitVars>>

\* detectSensitiveData: what the detection LLM answers, nothing when the
\* call fails
detectSensitiveData(body, llmFails) ==
    IF llmFails THEN {} ELSE SensitiveTypes(body)

\* Phase 3: sanitisation; detected and faults keep what the detector
\* reported and whether its call failed
SanitizeStage(r) ==
    LET q == req[r]
    IN  /\ q.pc = "sanitize"
        /\ IF shouldSanitizeEndpoint(q.path) /\ q.body # "null"
           THEN \E llmFails \in BOOLEAN :
                  LET detected == detectSensitiveData(q.body, llmFails)
                      q1 == [Called(q, "sanitizer") EXCEPT
                               !.detected = detected,
                               !.faults = IF llmFails THEN @ \cup {"detector"}
                                          ELSE @]
                  IN  req' = [req EXCEPT ![r] =
                               IF detected # {}
                               THEN SensitiveReject(q1, detected)
                               ELSE [q1 EXCEPT !.sanitizedBody = q.body,
                                               !.pc = "policy"]]
           ELSE req' = [req EXCEPT ![r].pc = "policy"]
        /\ UNCHANGED <<now, rateLimitStore, rlConfig, win, burst, flags, cacheStore, unitVars>>

\* Phase 4: policy enforcement; the classifier replies or its call fails
PolicyStage(r) ==
    LET q == req[r]
    IN  /\ q.pc = "policy"
        /\ IF ~shouldEnforcePolicy(q.path)
           THEN req' = [req EXCEPT ![r].pc = "cacheLookup"]
           ELSE IF ExtractThrows(q.sanitizedBody)
           THEN req' = [req EXCEPT ![r] =
                          Failed(Called(q, "classifier"),
                                 "content.trim is not a function")]
           ELSE \E reply1 \in Replies \ {"UNSURE"} :
                  LET content == extractContentForClassification(q.sanitizedBody)
                      out == shouldBlockFinancialContent(content, flags.policy,
                                                         reply1, "NON_FINANCIAL",
                                                         TRUE)
                      q1 == [Called(q, "classifier") EXCEPT
                               !.faults = IF out.calls > 0 /\ reply1 = "error"
                                          THEN @ \cup {"classifier"} ELSE @]
                  IN  req' = [req EXCEPT ![r] =
                                IF out.result
                                THEN FinancialReject(q1)
                                ELSE [q1 EXCEPT !.pc = "cacheLookup"]]
        /\ UNCHANGED <<now, rateLimitStore, rlConfig, win, burst, flags, cacheStore, unitVars>>

\* a variant that stores every entry with the default ttl
cacheSetDefaultTtl(store, key, value, ttl, t) ==
    MapSet(store, key, [value |-> value, insertedAt |-> t, ttl |-> ttl,
                        expiresAt |-> t + 300 * 1000])

\* cacheManager.set(key, value, ttl) at instant t, ttl in seconds: the entry
\* expires at expiresAt; insertedAt and ttl keep what the call was given
cacheSet(store, key, value, ttl, t) ==
    MapSet(store, key, [value |-> value, insertedAt |-> t, ttl |-> ttl,
                        expiresAt |-> t + ttl * 1000])

\* a variant that never finds an entry
CacheGetNever(key) == {}

\* cacheManager.get: the entry when it is present and has not expired
CacheGet(key) ==
    IF key \in DOMAIN cacheStore /\ now < cacheStore[key].expiresAt
    THEN {cacheStore[key]}
    ELSE {}

\* Phase 5: cache lookup
CacheLookupStage(r) ==
    LET q == req[r]
        key == generateCacheKey(q.provider, q.path, q.sanitizedBody)
        q1 == Called(q, "cacheGet")
    IN  /\ q.pc = "cacheLookup"
        /\ req' = [req EXCEPT ![r] =
                    IF ~shouldUseCache(q.path)
                    THEN [q EXCEPT !.pc = "dispatch"]
                    ELSE IF CacheGet(key) # {}
                    THEN CacheHit(q1, (CHOOSE c \in CacheGet(key) : TRUE).value)
                    ELSE [q1 EXCEPT !.pc = "dispatch"]]
        /\ UNCHANGED <<now, rateLimitStore, rlConfig, win, burst, flags, cacheStore, unitVars>>

\* makeNativeRequest: the upstream answers with any status, or the
\* transport fails
UpstreamStage(r) ==
    LET q == req[r]
        q1 == Called(q, "upstream")
    IN  /\ q.pc = "dispatch"
        /\ \/ \E reply \in UpstreamReplies :
                req' = [req EXCEPT ![r] =
                          [q1 EXCEPT !.sent = q.sanitizedBody,
                                     !.upstream = [status |-> reply.status,
                                                   raw |-> reply.raw,
                                                   data |-> ParseBody(reply.raw)],
                                     !.pc = "respond"]]
           \/ req' = [req EXCEPT ![r] =
                        Failed([q1 EXCEPT !.sent = q.sanitizedBody],
                               "connect ECONNREFUSED")]
        /\ UNCHANGED <<now, rateLimitStore, rlConfig, win, burst, flags, cacheStore, unitVars>>

\* Phase 6 and the answer: cache a 200 of a cacheable endpoint, forward
\* status and body, broadcast, and log in the finally block
RespondStage(r) ==
    LET q == req[r]
        key == generateCacheKey(q.provider, q.path, q.sanitizedBody)
        insert == shouldUseCache(q.path) /\ q.upstream.status = 200
        q1 == IF insert THEN Called(q, "cacheSet") ELSE q
        q2 == Called([q1 EXCEPT !.response =
                        [status |-> q.upstream.status, code |-> "",
                         body |-> SendBody(q.upstream.data), details |-> {}]],
                   "respond")
    IN  /\ q.pc = "respond"
        /\ cacheStore' =
             IF insert
             THEN cacheSet(cacheStore, key,
                           [status |-> q.upstream.status, data |-> q.upstream.data],
                           CACHE_TTL, now)
             ELSE cacheStore
        /\ req' = [req EXCEPT ![r] =
                     \* res.send was called before the broadcast: the answer
                     \* stays the one sent
                     LET q3 == Broadcast(q2)
                     IN  [AfterBroadcast(q3, [Finally(q3) EXCEPT !.pc = "done"])
                            EXCEPT !.response = q2.response]]
        /\ UNCHANGED <<now, rateLimitStore, rlConfig, win, burst, flags, unitVars>>

TickPipe ==
    /\ \E t \in Instants : t > now /\ now' = t
    /\ UNCHANGED <<rateLimitStore, rlConfig, win, burst, flags, req, cacheStore, unitVars>>

\* `if (!configService.get<boolean>(key, true))`: the default when the
\* variable is not set, else the string of the environment, which is falsy
\* only when it is empty
FlagEnabled(setting) ==
    IF setting = "unset" THEN TRUE ELSE setting # ""

\* the flags as the guards of forwardRequest see them
FlagsOf(e) ==
    [k \in DOMAIN e |-> FlagEnabled(e[k])]

\* the settings examined: nothing set, one variable set to false, all empty
EnvChoices ==
    {NoEnv,
     [NoEnv EXCEPT !.rateLimiting = "false"],
     [NoEnv EXCEPT !.timeBlocking = "false"],
     [NoEnv EXCEPT !.sanitization = "false"],
     [NoEnv EXCEPT !.policy = "false"],
     [NoEnv EXCEPT !.caching = "false"],
     [k \in DOMAIN NoEnv |-> ""]}

\* the deployments of the pipeline: nothing set, or caching switched off
EnvDefaults == {NoEnv, [NoEnv EXCEPT !.caching = ""]}

\* the proxy starts under one of these settings; the gateway has its server
InitWith(settings) ==
    /\ emit = "ok"
    /\ now = 0
    /\ rateLimitStore = EmptyStore
    /\ rlConfig = EnvConfig
    /\ win = NoWin
    /\ burst = NoBurst
    /\ env \in settings
    /\ flags = FlagsOf(env)
    /\ req = [r \in Reqs |-> IdleReq]
    /\ cacheStore = EmptyStore
    /\ ServicesInit

Init == InitWith(EnvDefaults)

InitFlags == InitWith(EnvChoices)

Next ==
    \/ TickPipe
    \/ \E r \in Reqs :
         \/ Arrive(r)
         \/ RateLimitStage(r)
         \/ TimeGateStage(r)
         \/ SanitizeStage(r)
         \/ PolicyStage(r)
         \/ CacheLookupStage(r)
         \/ UpstreamStage(r)
         \/ RespondStage(r)

Spec == Init /\ [][Next]_vars

\* the proxy with a gateway whose server.emit may throw
InitEmit ==
    /\ emit \in {"ok", "throws"}
    /\ now = 0
    /\ rateLimitStore = EmptyStore
    /\ rlConfig = EnvConfig
    /\ win = NoWin
    /\ burst = NoBurst
    /\ env = NoEnv
    /\ flags = FlagsOf(env)
    /\ req = [r \in Reqs |-> IdleReq]
    /\ cacheStore = EmptyStore
    /\ ServicesInit

SpecEmit == InitEmit /\ [][Next]_vars

\* every step of forwardRequest that waits on nothing outside the proxy is
\* taken in the end; the answer of the upstream is the upstream's to give
\* (makeNativeRequest sets no timer on its request)
PipeFairness ==
    \A r \in Reqs :
        /\ WF_vars(RateLimitStage(r))
        /\ WF_vars(TimeGateStage(r))
        /\ WF_vars(SanitizeStage(r))
        /\ WF_vars(PolicyStage(r))
        /\ WF_vars(CacheLookupStage(r))
        /\ WF_vars(RespondStage(r))

SpecLive == Spec /\ PipeFairness

SpecFlags == InitFlags /\ [][Next]_vars

-----------------------------------------------------------------------------
(* SpecRL: isAllowed under any order of calls, costs and clock readings *)

InitRL ==
    /\ now = 0
    /\ rateLimitStore = EmptyStore
    /\ rlConfig = EnvConfig
    /\ win = NoWin
    /\ burst = NoBurst
    /\ flags = AllEnabled
    /\ req = [r \in Reqs |-> IdleReq]
    /\ cacheStore = EmptyStore
    /\ UnitInit

TickRL ==
    \E dt \in TickStepsRL :
        /\ now + dt <= MaxNowRL
        /\ now' = now + dt
        /\ UNCHANGED <<rateLimitStore, rlConfig, win, burst, flags, req, cacheStore, unitVars>>

\* the observer starts watching a window for one identity
OpenWindow ==
    \E ip \in {"X"} :
        /\ ~win.open
        /\ win' = [open |-> TRUE, start |-> now, sum |-> 0, ip |-> ip]
        /\ UNCHANGED <<now, rateLimitStore, rlConfig, burst, flags, req, cacheStore, unitVars>>

\* one call of isAllowed(ip, getTokensRequired(path, method))
Consume ==
    \E ip \in Identities, path \in Paths, method \in Methods :
        LET cost == getTokensRequired(path, method)
            ok == isAllowedResult(rateLimitStore, ip, cost, now)
        IN  /\ rateLimitStore' = isAllowedStore(rateLimitStore, ip, cost, now)
            /\ win' = IF win.open /\ win.ip = ip /\ ok
                      THEN [win EXCEPT !.sum = @ + cost]
                      ELSE win
            /\ UNCHANGED <<now, rlConfig, burst, flags, req, cacheStore, unitVars>>

NextRL == TickRL \/ OpenWindow \/ Consume

SpecRL == InitRL /\ [][NextRL]_vars

-----------------------------------------------------------------------------
(* SpecBurst: one identity issues POSTs to /v1/chat/completions while the *)
(* clock runs, with the default configuration                               *)

InitBurst ==
    /\ now = 0
    /\ rateLimitStore = EmptyStore
    /\ rlConfig = DefaultConfig
    /\ win = NoWin
    /\ burst = NoBurst
    /\ flags = AllEnabled
    /\ req = [r \in Reqs |-> IdleReq]
    /\ cacheStore = EmptyStore
    /\ UnitInit

TickBurst ==
    \E dt \in TickStepsBurst :
        /\ now + dt <= MaxNowBurst
        /\ now' = now + dt
        /\ UNCHANGED <<rateLimitStore, rlConfig, win, burst, flags, req, cacheStore, unitVars>>

\* Phase 1 of forwardRequest for a POST to the chat endpoint: the status is
\* the one the filter answers with on a rejection, 0 while the request goes on
BurstPost ==
    LET cost == getTokensRequired("/v1/chat/completions", "POST")
        ok == isAllowedResult(rateLimitStore, "X", cost, now)
    IN  /\ burst.issued < MaxCalls
        /\ rateLimitStore' = isAllowedStore(rateLimitStore, "X", cost, now)
        /\ burst' = [issued |-> burst.issued + 1,
                     passed |-> burst.passed + (IF ok THEN 1 ELSE 0),
                     first |-> IF burst.issued = 0 THEN now ELSE burst.first,
                     lastCall |-> now,
                     status |-> IF ok THEN 0
                                ELSE FilterCatch(RateLimitedException).status]
        /\ UNCHANGED <<now, rlConfig, win, flags, req, cacheStore, unitVars>>

NextBurst == TickBurst \/ BurstPost

SpecBurst == InitBurst /\ [][NextBurst]_vars

-----------------------------------------------------------------------------
(* SpecBuckets: the bucket map under isAllowed, getRateLimitStatus and      *)
(* resetRateLimit while hours and days pass                                 *)

\* the instants the clock is read at: two close ones, and two more than a
\* day later
BucketInstants ==
    {0, 3, 5, 24 * 60 * 60 * 1000 + 4, 24 * 60 * 60 * 1000 + 7}
StatusIdentities == {"X", "Z"}

Max(a, b) == IF a > b THEN a ELSE b

\* a variant that reports the stored tokens
getRateLimitStatusStored(store, ip, t) ==
    IF ip \notin DOMAIN store
    THEN [remaining |-> rlConfig.maxTokens, resetTime |-> t + rlConfig.refillInterval,
          maxTokens |-> rlConfig.maxTokens]
    ELSE [remaining |-> Max(0, store[ip].tokens),
          resetTime |-> store[ip].lastRefill + rlConfig.refillInterval,
          maxTokens |-> rlConfig.maxTokens]

getRateLimitStatus(store, ip, t) ==
    IF ip \notin DOMAIN store
    THEN [remaining |-> rlConfig.maxTokens, resetTime |-> t + rlConfig.refillInterval,
          maxTokens |-> rlConfig.maxTokens]
    ELSE LET rateLimitInfo == store[ip]
             timeElapsed == t - rateLimitInfo.lastRefill
             tokensToAdd == (timeElapsed * rlConfig.refillRate)
                                \div rlConfig.refillInterval
             currentTokens == Min(rlConfig.maxTokens,
                                  rateLimitInfo.tokens + tokensToAdd)
         IN  [remaining |-> Max(0, currentTokens),
              resetTime |-> rateLimitInfo.lastRefill + rlConfig.refillInterval,
              maxTokens |-> rlConfig.maxTokens]

\* a variant that clears the map
MapDeleteAll(store, k) == [x \in {} |-> store[x]]

\* Map.delete
MapDelete(store, k) == [x \in (DOMAIN store) \ {k} |-> store[x]]

InitBuckets ==
    /\ now = 0
    /\ rateLimitStore = EmptyStore
    /\ rlConfig = EnvConfig
    /\ win = NoWin
    /\ burst = NoBurst
    /\ flags = AllEnabled
    /\ req = [r \in Reqs |-> IdleReq]
    /\ cacheStore = EmptyStore
    /\ UnitInit

TickBuckets ==
    /\ \E t \in BucketInstants : t > now /\ now' = t
    /\ UNCHANGED <<rateLimitStore, rlConfig, win, burst, flags, req, hdr, cacheStore,
                   pol, cacheStats, gets, outb, audit, mon, env, stat, call, emit, sq,
                   san>>

\* one call of isAllowed(ip, getTokensRequired(path, method))
BucketConsume ==
    /\ \E ip \in {"X"}, path \in Paths, method \in Methods :
          rateLimitStore' =
              isAllowedStore(rateLimitStore, ip, getTokensRequired(path, method), now)
    /\ UNCHANGED <<now, rlConfig, win, burst, flags, req, hdr, cacheStore,
                   pol, cacheStats, gets, outb, audit, mon, env, stat, call, emit, sq,
                   san>>

\* GET rate-limits/:ip
BucketStatus ==
    /\ \E ip \in StatusIdentities :
          LET status == getRateLimitStatus(rateLimitStore, ip, now)
          IN  stat' = [n |-> 1 - stat.n, ip |-> ip, remaining |-> status.remaining,
                       resetTime |-> status.resetTime,
                       maxTokens |-> status.maxTokens]
    /\ UNCHANGED <<now, rateLimitStore, rlConfig, win, burst, flags, req, hdr, cacheStore,
                   pol, cacheStats, gets, outb, audit, mon, env, call, emit, sq, san>>

\* DELETE rate-limits/:ip
BucketReset ==
    /\ \E ip \in DOMAIN rateLimitStore :
          rateLimitStore' = MapDelete(rateLimitStore, ip)
    /\ UNCHANGED <<now, rlConfig, win, burst, flags, req, hdr, cacheStore,
                   pol, cacheStats, gets, outb, audit, mon, env, stat, call, emit, sq,
                   san>>

-----------------------------------------------------------------------------
(* SpecPair: the rate limiter called for two identities, each call recorded *)

\* the instants the clock is read at
PairInstants == {0, 1, 4, 9}

TickPair ==
    /\ \E t \in PairInstants : t > now /\ now' = t
    /\ UNCHANGED <<rateLimitStore, rlConfig, win, burst, flags, req, hdr, cacheStore,
                   pol, cacheStats, gets, outb, audit, mon, env, stat, call, emit, sq,
                   san>>

\* one call of isAllowed(ip, getTokensRequired(path, method))
PairConsume ==
    /\ \E ip \in Identities, path \in Paths, method \in Methods :
          LET cost == getTokensRequired(path, method)
          IN  /\ rateLimitStore' = isAllowedStore(rateLimitStore, ip, cost, now)
              /\ call' = [n |-> 1 - call.n, op |-> "isAllowed", ip |-> ip,
                          cost |-> cost,
                          ok |-> isAllowedResult(rateLimitStore, ip, cost, now)]
    /\ UNCHANGED <<now, rlConfig, win, burst, flags, req, hdr, cacheStore,
                   pol, cacheStats, gets, outb, audit, mon, env, stat, emit, sq, san>>

\* GET rate-limits/:ip; the map is read, not written
PairStatus ==
    /\ \E ip \in Identities :
          call' = [n |-> 1 - call.n, op |-> "getRateLimitStatus", ip |-> ip,
                   cost |-> 0,
                   ok |-> getRateLimitStatus(rateLimitStore, ip, now).remaining > 0]
    /\ UNCHANGED <<now, rateLimitStore, rlConfig, win, burst, flags, req, hdr,
                   cacheStore, pol, cacheStats, gets, outb, audit, mon, env, stat,
                   emit, sq, san>>

\* DELETE rate-limits/:ip
PairReset ==
    /\ \E ip \in Identities :
          /\ rateLimitStore' = MapDelete(rateLimitStore, ip)
          /\ call' = [n |-> 1 - call.n, op |-> "resetRateLimit", ip |-> ip,
                      cost |-> 0, ok |-> TRUE]
    /\ UNCHANGED <<now, rlConfig, win, burst, flags, req, hdr, cacheStore,
                   pol, cacheStats, gets, outb, audit, mon, env, stat, emit, sq, san>>

NextPair == TickPair \/ PairConsume \/ PairStatus \/ PairReset

SpecPair == InitBuckets /\ [][NextPair]_vars

NextBuckets == TickBuckets \/ BucketConsume \/ BucketStatus \/ BucketReset

SpecBuckets == InitBuckets /\ [][NextBuckets]_vars

\* the clock goes on; nothing in the program calls RateLimitingService.cleanup
SpecBucketsLive == SpecBuckets /\ WF_vars(TickBuckets)

-----------------------------------------------------------------------------
(* SpecPolicy: single calls of shouldBlockFinancialContent, on texts of any *)
(* length and keyword content, with any replies of the classifier           *)

InitPolicy ==
    /\ now = 0
    /\ rateLimitStore = EmptyStore
    /\ rlConfig = DefaultConfig
    /\ win = NoWin
    /\ burst = NoBurst
    /\ flags = AllEnabled
    /\ req = [r \in Reqs |-> IdleReq]
    /\ cacheStore = EmptyStore
    /\ UnitInit

\* lengths of the trimmed text around the limits of the length checks
ContentLengths == {0, 9, 10, 11, 1000, 1001, 2000, 2001}

PolicyCheck ==
    /\ ~pol.done
    /\ \E len \in ContentLengths, kw \in BOOLEAN, borderlineKw \in BOOLEAN,
          clearKw \in BOOLEAN, policyEnabled \in BOOLEAN, strictMode \in BOOLEAN,
          reply1 \in Replies, reply2 \in Replies :
          LET content == [len |-> len, kw |-> kw, borderlineKw |-> borderlineKw,
                          clearKw |-> clearKw]
              out == shouldBlockFinancialContent(content, policyEnabled, reply1,
                                                 reply2, strictMode)
          IN  /\ len = 0 => ~(kw \/ borderlineKw \/ clearKw)
              /\ pol' = [done |-> TRUE, content |-> content,
                         policyEnabled |-> policyEnabled,
                         strictMode |-> strictMode, reply1 |-> reply1,
                         reply2 |-> reply2, result |-> out.result,
                         calls |-> out.calls]
    /\ UNCHANGED <<now, rateLimitStore, rlConfig, win, burst, flags, req, hdr, cacheStore,
                   cacheStats, gets, outb, audit, mon, env, stat, call, emit, sq, san>>

\* the next call starts
PolicyReturn ==
    /\ pol.done
    /\ pol' = NoPol
    /\ UNCHANGED <<now, rateLimitStore, rlConfig, win, burst, flags, req, hdr, cacheStore,
                   cacheStats, gets, outb, audit, mon, env, stat, call, emit, sq, san>>

NextPolicy == PolicyCheck \/ PolicyReturn

SpecPolicy == InitPolicy /\ [][NextPolicy]_vars

-----------------------------------------------------------------------------
(* SpecCache: CacheService over the cache manager's store; get calls in    *)
(* flight interleave with each other, with set and with resetStats         *)

MaxTicks == 4            \* SpecMonitor: ticks of the 5-second timer
MaxUpdates == 22         \* SpecActivity: calls of updateRequestActivity
MaxSaves == 2            \* SpecMonitor, SpecActivity: rows written to the log table
MaxResets == 1           \* SpecMonitor, SpecActivity: resets of the log table
MaxConnects == 1         \* SpecMonitor: dashboard clients that connect
MaxGets == 3             \* get calls counted before the counters are reset
MaxRows == 2             \* SpecStats: log rows saved
MaxPuts == 2             \* set calls counted before the counters are reset

CacheKeys == {"k1"}
CacheValues == {"e1", "e2"}
TtlChoices == {1, 300}
CacheInstants == {0, 999, 1000, 300000}

\* what the cache manager's get gives when it finds nothing
MissValues == {"null", "undefined"}

InitCache ==
    /\ now = 0
    /\ rateLimitStore = EmptyStore
    /\ rlConfig = DefaultConfig
    /\ win = NoWin
    /\ burst = NoBurst
    /\ flags = AllEnabled
    /\ req = [r \in Reqs |-> IdleReq]
    /\ cacheStore = EmptyStore
    /\ UnitInit

TickCache ==
    /\ \E t \in CacheInstants : t > now /\ now' = t
    /\ UNCHANGED <<rateLimitStore, rlConfig, win, burst, flags, req, hdr, cacheStore,
                   pol, cacheStats, gets, outb, audit, mon, env, stat, call, emit, sq,
                   san>>

\* CacheService.set: the entry is stored, then size is counted
CachePut ==
    /\ cacheStats.size < MaxPuts
    /\ \E key \in CacheKeys, value \in CacheValues, ttl \in TtlChoices :
          cacheStore' = cacheSet(cacheStore, key, value, ttl, now)
    /\ cacheStats' = [cacheStats EXCEPT !.size = @ + 1]
    /\ UNCHANGED <<now, rateLimitStore, rlConfig, win, burst, flags, req, hdr, pol, gets,
                   outb, audit, mon, env, stat, call, emit, sq, san>>

\* CacheService.get up to its await: totalRequests is counted
GetCounted(stats) == [stats EXCEPT !.totalRequests = @ + 1]

\* CacheService.get up to its await; the manager's lookup is made at once
\* and finds the live entry, or nothing, or fails
GetStart(g) ==
    /\ gets[g].pc \in {"idle", "returned"}
    /\ cacheStats.totalRequests < MaxGets
    /\ cacheStats' = GetCounted(cacheStats)
    /\ \E key \in CacheKeys, fails \in BOOLEAN, miss \in MissValues :
          gets' = [gets EXCEPT ![g] =
                     [pc |-> "awaiting", key |-> key, result |-> "null",
                      found |-> IF fails THEN "error"
                                ELSE IF CacheGet(key) # {}
                                THEN (CHOOSE c \in CacheGet(key) : TRUE).value
                                ELSE miss]]
    /\ UNCHANGED <<now, rateLimitStore, rlConfig, win, burst, flags, req, hdr, cacheStore,
                   pol, outb, audit, mon, env, stat, call, emit, sq, san>>

\* CacheService.get after its await: a hit unless the result is null, a miss
\* and null when the lookup failed
GetEnd(g) ==
    /\ gets[g].pc = "awaiting"
    /\ cacheStats' =
         IF gets[g].found = "error" THEN [cacheStats EXCEPT !.misses = @ + 1]
         ELSE IF gets[g].found # "null" THEN [cacheStats EXCEPT !.hits = @ + 1]
         ELSE [cacheStats EXCEPT !.misses = @ + 1]
    /\ gets' = [gets EXCEPT ![g].pc = "returned",
                            ![g].result = IF gets[g].found = "error" THEN "null"
                                          ELSE gets[g].found]
    /\ UNCHANGED <<now, rateLimitStore, rlConfig, win, burst, flags, req, hdr, cacheStore,
                   pol, outb, audit, mon, env, stat, call, emit, sq, san>>

\* CacheService.resetStats
ResetStats ==
    /\ cacheStats # NoStats
    /\ cacheStats' = NoStats
    /\ UNCHANGED <<now, rateLimitStore, rlConfig, win, burst, flags, req, hdr, cacheStore,
                   pol, gets, outb, audit, mon, env, stat, call, emit, sq, san>>

NextCache ==
    \/ TickCache
    \/ CachePut
    \/ ResetStats
    \/ \E g \in GetIds : GetStart(g) \/ GetEnd(g)

SpecCache == InitCache /\ [][NextCache]_vars

-----------------------------------------------------------------------------
(* The headers of an answer (forwardRequest, both ways out) *)

\* headers an upstream can answer with: the name as spelled, typeof value
\* ("string", or "object" for the array of a repeated header) and the value
UpstreamHeaders ==
    { [name |-> "content-type", kind |-> "string", value |-> "application/json"],
      [name |-> "Content-Length", kind |-> "string", value |-> "8"],
      [name |-> "transfer-encoding", kind |-> "string", value |-> "chunked"],
      [name |-> "Connection", kind |-> "string", value |-> "keep-alive"],
      [name |-> "Keep-Alive", kind |-> "string", value |-> "timeout=5"],
      [name |-> "content-encoding", kind |-> "string", value |-> "gzip"],
      [name |-> "X-Request-Id", kind |-> "string", value |-> "abc"],
      [name |-> "set-cookie", kind |-> "object", value |-> "a=1,b=2"] }

\* a variant that compares the key as spelled
toLowerCaseIdentity(key) == key

\* key.toLowerCase() over the names above
toLowerCase(key) ==
    CASE key = "Content-Length" -> "content-length"
      [] key = "Connection" -> "connection"
      [] key = "Keep-Alive" -> "keep-alive"
      [] key = "X-Request-Id" -> "x-request-id"
      [] key = "Content-Type" -> "content-type"
      [] key = "User-Agent" -> "user-agent"
      [] key = "Accept" -> "accept"
      [] key = "Cache-Control" -> "cache-control"
      [] key = "Pragma" -> "pragma"
      [] key = "Authorization" -> "authorization"
      [] key = "Accept-Encoding" -> "accept-encoding"
      [] key = "Host" -> "host"
      [] OTHER -> key

skipCachedHeaders ==
    {"transfer-encoding", "content-length", "connection", "keep-alive",
     "content-encoding"}

skipHeaders ==
    {"transfer-encoding", "content-length", "connection", "keep-alive",
     "content-encoding"}

\* Object.entries(headers).forEach: res.setHeader(key, value) for the string
\* values whose lower-cased key is not skipped
CopyHeaders(headers, skip) ==
    {h \in headers : h.kind = "string" /\ toLowerCase(h.name) \notin skip}

InitHeaders ==
    /\ now = 0
    /\ rateLimitStore = EmptyStore
    /\ rlConfig = EnvConfig
    /\ win = NoWin
    /\ burst = NoBurst
    /\ flags = AllEnabled
    /\ req = [r \in Reqs |-> IdleReq]
    /\ cacheStore = EmptyStore
    /\ UnitInit

\* the upstream answered with these headers
UpstreamAnswers ==
    /\ hdr.pc = "idle"
    /\ \E headers \in SUBSET UpstreamHeaders :
          hdr' = [pc |-> "received", from |-> "upstream", upstream |-> headers,
                  sent |-> {}]
    /\ UNCHANGED <<now, rateLimitStore, rlConfig, win, burst, flags, req, cacheStore,
                   pol, cacheStats, gets, outb, audit, mon, env, stat, call, emit, sq,
                   san>>

\* the cache holds a response stored with the headers its upstream sent
CacheAnswers ==
    /\ hdr.pc = "idle"
    /\ \E headers \in SUBSET UpstreamHeaders :
          hdr' = [pc |-> "received", from |-> "cache", upstream |-> headers,
                  sent |-> {}]
    /\ UNCHANGED <<now, rateLimitStore, rlConfig, win, burst, flags, req, cacheStore,
                   pol, cacheStats, gets, outb, audit, mon, env, stat, call, emit, sq,
                   san>>

\* "Forward the response back to the client"
ForwardUpstream ==
    /\ hdr.pc = "received" /\ hdr.from = "upstream"
    /\ hdr' = [hdr EXCEPT !.pc = "sent",
                          !.sent = CopyHeaders(hdr.upstream, skipHeaders)]
    /\ UNCHANGED <<now, rateLimitStore, rlConfig, win, burst, flags, req, cacheStore,
                   pol, cacheStats, gets, outb, audit, mon, env, stat, call, emit, sq,
                   san>>

\* "Return cached response"
ForwardCached ==
    /\ hdr.pc = "received" /\ hdr.from = "cache"
    /\ hdr' = [hdr EXCEPT !.pc = "sent",
                          !.sent = CopyHeaders(hdr.upstream, skipCachedHeaders)]
    /\ UNCHANGED <<now, rateLimitStore, rlConfig, win, burst, flags, req, cacheStore,
                   pol, cacheStats, gets, outb, audit, mon, env, stat, call, emit, sq,
                   san>>

NextHeaders ==
    \/ UpstreamAnswers
    \/ CacheAnswers
    \/ ForwardUpstream
    \/ ForwardCached

SpecHeaders == InitHeaders /\ [][NextHeaders]_vars

-----------------------------------------------------------------------------
(* The headers of the request sent to the provider *)

\* the inbound headers as Node hands them over (lower-case names) and the
\* values a client can give each; "" stands for a header that is absent
InboundNames ==
    {"content-type", "user-agent", "accept", "pragma", "authorization", "x-api-key",
     "anthropic-version", "cookie", "content-length"}

InboundValues(name) ==
    CASE name = "content-type" -> {"", "text/plain"}
      [] name = "user-agent" -> {"", "curl/8"}
      [] name = "accept" -> {"", "*/*"}
      [] name = "pragma" -> {"", "no-cache"}
      [] name = "authorization" -> {"", "Bearer client-1", "Bearer client-2"}
      [] name = "x-api-key" -> {"", "client-1"}
      [] name = "anthropic-version" -> {"", "2020-01-01"}
      [] name = "cookie" -> {"", "sid=1"}
      [] name = "content-length" -> {"", "8"}

\* the headers object with these values
InboundOf(ct, ua, ac, pr, au, xk, av, ck, cl) ==
    [name \in InboundNames |->
        CASE name = "content-type" -> ct
          [] name = "user-agent" -> ua
          [] name = "accept" -> ac
          [] name = "pragma" -> pr
          [] name = "authorization" -> au
          [] name = "x-api-key" -> xk
          [] name = "anthropic-version" -> av
          [] name = "cookie" -> ck
          [] name = "content-length" -> cl]

\* the two proxied providers
ProviderNames == {"openai", "anthropic"}

\* originalHeaders[name]: "" when the object has no such key
HeaderOf(originalHeaders, name) ==
    IF name \in DOMAIN originalHeaders THEN originalHeaders[name] ELSE ""

safeHeaders ==
    {"content-type", "Content-Type", "user-agent", "User-Agent", "accept", "Accept",
     "cache-control", "Cache-Control", "pragma", "Pragma"}

\* getProviderAPIKey
getProviderAPIKey(provider) ==
    IF provider = "openai" THEN "sk-openai-configured" ELSE "sk-ant-configured"

\* headers['Authorization'] = `Bearer ${apiKey}`
Bearer(apiKey) ==
    IF apiKey = "sk-openai-configured" THEN "Bearer sk-openai-configured"
    ELSE "Bearer sk-ant-configured"

\* the provider-specific authorization of prepareHeaders
ProviderAuth(provider, apiKey) ==
    IF provider = "openai"
    THEN {[name |-> "Authorization", value |-> Bearer(apiKey)]}
    ELSE {[name |-> "x-api-key", value |-> apiKey],
          [name |-> "anthropic-version", value |-> "2023-06-01"]}

\* a variant that starts from a copy of all the inbound headers
prepareHeadersCopyAll(originalHeaders, provider, apiKey) ==
    LET auth == ProviderAuth(provider, apiKey)
        copied == {[name |-> n, value |-> originalHeaders[n]] :
                     n \in {m \in DOMAIN originalHeaders : originalHeaders[m] # ""}}
    IN  {h \in copied : \A a \in auth : a.name # h.name} \cup auth
          \cup {[name |-> "Accept-Encoding", value |-> "identity"]}

prepareHeaders(originalHeaders, provider, apiKey) ==
    LET copied ==
            {[name |-> header,
              value |-> IF HeaderOf(originalHeaders, header) # ""
                        THEN HeaderOf(originalHeaders, header)
                        ELSE HeaderOf(originalHeaders, toLowerCase(header))] :
               header \in {h \in safeHeaders :
                              \/ HeaderOf(originalHeaders, h) # ""
                              \/ HeaderOf(originalHeaders, toLowerCase(h)) # ""}}
        contentType ==
            IF \E h \in copied : h.name \in {"content-type", "Content-Type"}
            THEN {}
            ELSE {[name |-> "Content-Type", value |-> "application/json"]}
    IN  copied \cup ProviderAuth(provider, apiKey) \cup contentType
          \cup {[name |-> "Accept-Encoding", value |-> "identity"]}

\* makeNativeRequest: the headers of the request options
RequestHeaders(headers) ==
    {h \in headers :
        toLowerCase(h.name) \notin
            {"content-length", "transfer-encoding", "host", "connection", "keep-alive"}}
      \cup {[name |-> "Host", value |-> "api.provider.example"]}

InitOutbound ==
    /\ now = 0
    /\ rateLimitStore = EmptyStore
    /\ rlConfig = EnvConfig
    /\ win = NoWin
    /\ burst = NoBurst
    /\ flags = AllEnabled
    /\ req = [r \in Reqs |-> IdleReq]
    /\ cacheStore = EmptyStore
    /\ UnitInit

\* a request arrives for a provider with the headers of its client
OutboundArrive ==
    /\ outb.pc = "idle"
    /\ \E provider \in ProviderNames,
          ct \in InboundValues("content-type"), ua \in InboundValues("user-agent"),
          ac \in InboundValues("accept"), pr \in InboundValues("pragma"),
          au \in InboundValues("authorization"), xk \in InboundValues("x-api-key"),
          av \in InboundValues("anthropic-version"), ck \in InboundValues("cookie"),
          cl \in InboundValues("content-length") :
          outb' = [pc |-> "received", provider |-> provider,
                   inbound |-> InboundOf(ct, ua, ac, pr, au, xk, av, ck, cl),
                   sent |-> {}]
    /\ UNCHANGED <<now, rateLimitStore, rlConfig, win, burst, flags, req, hdr, cacheStore,
                   pol, cacheStats, gets, audit, mon, env, stat, call, emit, sq, san>>

\* the dispatch: prepareHeaders, then the options of makeNativeRequest
OutboundSend ==
    /\ outb.pc = "received"
    /\ outb' = [outb EXCEPT
                  !.pc = "sent",
                  !.sent = RequestHeaders(
                             prepareHeaders(outb.inbound, outb.provider,
                                            getProviderAPIKey(outb.provider)))]
    /\ UNCHANGED <<now, rateLimitStore, rlConfig, win, burst, flags, req, hdr, cacheStore,
                   pol, cacheStats, gets, audit, mon, env, stat, call, emit, sq, san>>

NextOutbound ==
    \/ OutboundArrive
    \/ OutboundSend

SpecOutbound == InitOutbound /\ [][NextOutbound]_vars

-----------------------------------------------------------------------------
(* LoggingService.logRequest and the request path around it *)

\* the ways a request ends, with the status its caller is answered
AuditOutcomes ==
    { [action |-> "PROXIED", status |-> 200],
      [action |-> "BLOCKED_TIME", status |-> 403],
      [action |-> "BLOCKED_FINANCIAL", status |-> 403] }

\* a variant that awaits repository.save inside the call
logRequestAwaitSave(a, r, createFails, saveFails) ==
    IF createFails \/ saveFails
    THEN [a EXCEPT !.stderr = @ + 1, !.calls[r].logged = TRUE]
    ELSE [a EXCEPT !.saved = @ \cup {[of |-> r, action |-> a.calls[r].action]},
                   !.calls[r].logged = TRUE]

\* logRequest: create the entity and hand its save to setImmediate; an
\* exception of create or JSON.stringify is caught and printed
logRequest(a, r, createFails, saveFails) ==
    IF createFails
    THEN [a EXCEPT !.stderr = @ + 1, !.calls[r].logged = TRUE]
    ELSE [a EXCEPT !.immediates =
                      Append(@, [of |-> r, action |-> a.calls[r].action,
                                 saveFails |-> saveFails]),
                   !.calls[r].logged = TRUE]

InitAudit ==
    /\ now = 0
    /\ rateLimitStore = EmptyStore
    /\ rlConfig = EnvConfig
    /\ win = NoWin
    /\ burst = NoBurst
    /\ flags = AllEnabled
    /\ req = [r \in Reqs |-> IdleReq]
    /\ cacheStore = EmptyStore
    /\ UnitInit

\* forwardRequest decides how the request ends
AuditDecide(r) ==
    /\ audit.calls[r].action = ""
    /\ \E o \in AuditOutcomes :
          audit' = [audit EXCEPT !.calls[r].action = o.action,
                                 !.calls[r].status = o.status]
    /\ UNCHANGED <<now, rateLimitStore, rlConfig, win, burst, flags, req, hdr, cacheStore,
                   pol, cacheStats, gets, outb, mon, env, stat, call, emit, sq, san>>

\* await this.loggingService.logRequest(...): before the exception of a
\* blocked request is thrown, after res.send of a proxied one
AuditLog(r) ==
    /\ audit.calls[r].action # "" /\ ~audit.calls[r].logged
    /\ audit.calls[r].action = "PROXIED" => audit.calls[r].answered # 0
    /\ \E createFails \in BOOLEAN, saveFails \in BOOLEAN :
          audit' = logRequest(audit, r, createFails, saveFails)
    /\ UNCHANGED <<now, rateLimitStore, rlConfig, win, burst, flags, req, hdr, cacheStore,
                   pol, cacheStats, gets, outb, mon, env, stat, call, emit, sq, san>>

\* the caller is answered: res.send, or the exception filter
AuditAnswer(r) ==
    /\ audit.calls[r].action # "" /\ audit.calls[r].answered = 0
    /\ audit.calls[r].action # "PROXIED" => audit.calls[r].logged
    /\ audit' = [audit EXCEPT !.calls[r].answered = audit.calls[r].status]
    /\ UNCHANGED <<now, rateLimitStore, rlConfig, win, burst, flags, req, hdr, cacheStore,
                   pol, cacheStats, gets, outb, mon, env, stat, call, emit, sq, san>>

\* the setImmediate callback: await repository.save(log), its failure caught
AuditSave ==
    /\ audit.immediates # <<>>
    /\ LET log == Head(audit.immediates)
       IN  audit' =
             IF log.saveFails
             THEN [audit EXCEPT !.immediates = Tail(@), !.stderr = @ + 1]
             ELSE [audit EXCEPT !.immediates = Tail(@),
                                !.saved = @ \cup {[of |-> log.of,
                                                    action |-> log.action]}]
    /\ UNCHANGED <<now, rateLimitStore, rlConfig, win, burst, flags, req, hdr, cacheStore,
                   pol, cacheStats, gets, outb, mon, env, stat, call, emit, sq, san>>

NextAudit ==
    \/ AuditSave
    \/ \E r \in Reqs : AuditDecide(r) \/ AuditLog(r) \/ AuditAnswer(r)

SpecAudit == InitAudit /\ [][NextAudit]_vars

-----------------------------------------------------------------------------
(* MonitoringGateway: the 5-second timer and the recent-activity series *)

MAX_ACTIVITY_POINTS == 20

\* a variant that records the difference as it is
updateRequestActivityRaw(m, currentTotal) ==
    LET newRequests == currentTotal - m.lastTotalRequests
        pushed == Append(m.requestActivityData, newRequests)
    IN  [m EXCEPT !.lastTotalRequests = currentTotal,
                  !.requestActivityData =
                      IF Len(pushed) > MAX_ACTIVITY_POINTS THEN Tail(pushed)
                      ELSE pushed]

updateRequestActivity(m, currentTotal) ==
    LET diff == currentTotal - m.lastTotalRequests
        newRequests == IF diff < 0 THEN 0 ELSE diff
        pushed == Append(m.requestActivityData, newRequests)
    IN  [m EXCEPT !.lastTotalRequests = currentTotal,
                  !.requestActivityData =
                      IF Len(pushed) > MAX_ACTIVITY_POINTS THEN Tail(pushed)
                      ELSE pushed]

InitMonitor ==
    /\ now = 0
    /\ rateLimitStore = EmptyStore
    /\ rlConfig = EnvConfig
    /\ win = NoWin
    /\ burst = NoBurst
    /\ flags = AllEnabled
    /\ req = [r \in Reqs |-> IdleReq]
    /\ cacheStore = EmptyStore
    /\ UnitInit

\* repository.save of one log row
MonSave ==
    /\ mon.saves < MaxSaves
    /\ mon' = [mon EXCEPT !.rows = @ + 1, !.saves = @ + 1]
    /\ UNCHANGED <<now, rateLimitStore, rlConfig, win, burst, flags, req, hdr, cacheStore,
                   pol, cacheStats, gets, outb, audit, env, stat, call, emit, sq, san>>

\* the log table is emptied (database reset)
MonReset ==
    /\ mon.resets < MaxResets /\ mon.rows > 0
    /\ mon' = [mon EXCEPT !.rows = 0, !.resets = @ + 1]
    /\ UNCHANGED <<now, rateLimitStore, rlConfig, win, burst, flags, req, hdr, cacheStore,
                   pol, cacheStats, gets, outb, audit, env, stat, call, emit, sq, san>>

\* the setInterval callback: with a client connected (connectedClients.size
\* > 0) it calls getMonitoringData, which starts its queries
MonTick ==
    /\ mon.ticks < MaxTicks
    /\ IF mon.connects > 0
       THEN \E j \in MonJobs :
               /\ mon.jobs[j].pc = "idle"
               /\ mon' = [mon EXCEPT !.ticks = @ + 1,
                                     !.jobs[j] = [pc |-> "count", kind |-> "timer",
                                                  tick |-> mon.ticks + 1,
                                                  total |-> 0]]
       ELSE mon' = [mon EXCEPT !.ticks = @ + 1]
    /\ UNCHANGED <<now, rateLimitStore, rlConfig, win, burst, flags, req, hdr, cacheStore,
                   pol, cacheStats, gets, outb, audit, env, stat, call, emit, sq, san>>

\* handleConnection: sendInitialData calls getMonitoringData
MonConnect ==
    /\ mon.connects < MaxConnects
    /\ \E j \in MonJobs :
          /\ mon.jobs[j].pc = "idle"
          /\ mon' = [mon EXCEPT !.connects = @ + 1,
                                !.jobs[j] = [pc |-> "count", kind |-> "initial",
                                             tick |-> 0, total |-> 0]]
    /\ UNCHANGED <<now, rateLimitStore, rlConfig, win, burst, flags, req, hdr, cacheStore,
                   pol, cacheStats, gets, outb, audit, env, stat, call, emit, sq, san>>

\* getStatistics: total = await repository.count(); more queries follow
MonCount(j) ==
    /\ mon.jobs[j].pc = "count"
    /\ mon' = [mon EXCEPT !.jobs[j].pc = "queries", !.jobs[j].total = mon.rows]
    /\ UNCHANGED <<now, rateLimitStore, rlConfig, win, burst, flags, req, hdr, cacheStore,
                   pol, cacheStats, gets, outb, audit, env, stat, call, emit, sq, san>>

\* the last query of getMonitoringData answers: updateRequestActivity, then
\* the snapshot goes out (server.emit for the timer, client.emit on connect)
MonEmit(j) ==
    /\ mon.jobs[j].pc = "queries"
    /\ LET m == updateRequestActivity(mon, mon.jobs[j].total)
       IN  mon' = [m EXCEPT !.jobs[j] = IdleJob,
                            !.emitted =
                                IF mon.jobs[j].kind = "timer"
                                THEN [tick |-> mon.jobs[j].tick,
                                      total |-> mon.jobs[j].total]
                                ELSE @]
    /\ UNCHANGED <<now, rateLimitStore, rlConfig, win, burst, flags, req, hdr, cacheStore,
                   pol, cacheStats, gets, outb, audit, env, stat, call, emit, sq, san>>

NextMonitor ==
    \/ MonSave
    \/ MonReset
    \/ MonTick
    \/ MonConnect
    \/ \E j \in MonJobs : MonCount(j) \/ MonEmit(j)

SpecMonitor == InitMonitor /\ [][NextMonitor]_vars

\* getMonitoringData from its first query to updateRequestActivity, when no
\* other call of it is under way
ActivityUpdate ==
    /\ mon.ticks < MaxUpdates
    /\ mon' = [updateRequestActivity(mon, mon.rows) EXCEPT !.ticks = @ + 1]
    /\ UNCHANGED <<now, rateLimitStore, rlConfig, win, burst, flags, req, hdr, cacheStore,
                   pol, cacheStats, gets, outb, audit, env, stat, call, emit, sq, san>>

NextActivity ==
    \/ MonSave
    \/ MonReset
    \/ ActivityUpdate

SpecActivity == InitMonitor /\ [][NextActivity]_vars

-----------------------------------------------------------------------------
(* SpecSanitize: DataSanitizationService.sanitizeData on a JSON body *)

\* the bodies examined: leaves, arrays and objects of leaves, and these one
\* level down; one key is spelled like an email address
SanLeaves ==
    {Leaf("string", t) : t \in SanStrings} \cup {Leaf("number", "0"), Leaf("null", "")}
SanKeys == {<<"prompt">>, <<"a@b.c">>, <<"prompt", "a@b.c">>}
UpToTwo(S) == {<<>>} \cup {<<a>> : a \in S} \cup {<<a, b>> : a, b \in S}
SanFlat ==
    SanLeaves
      \cup {Arr(kids) : kids \in UpToTwo(SanLeaves)}
      \cup {Obj(<<>>, <<>>)}
      \cup UNION {{Obj(ks, kids) :
                     kids \in {k \in UpToTwo(SanLeaves) : Len(k) = Len(ks)}} :
                  ks \in SanKeys}
SanBodies ==
    SanFlat \cup {Arr(<<t>>) : t \in SanFlat}
            \cup {Obj(<<"messages">>, <<t>>) : t \in SanFlat}

\* what the detection LLM answers for a text: nothing found, an email
\* address, or the call fails
SanAnswers ==
    {a \in [SanStrings -> {"none", "email", "error"}] :
        /\ a[""] = "none"
        /\ a["hello"] # "email"}

RECURSIVE JsonClone(_)
\* JSON.parse(JSON.stringify(data)): the value is written out and built anew
JsonClone(data) ==
    IF data.kind \in {"array", "object"}
    THEN [kind |-> data.kind, text |-> "",
          kids |-> [i \in 1..Len(data.kids) |-> JsonClone(data.kids[i])],
          keys |-> data.keys]
    ELSE Leaf(data.kind, data.text)

\* a variant that asks the detector about empty strings too
sanitizeStringAll(obj, answers) ==
    IF answers[obj.text] = "email"
    THEN [thrown |-> {"email"}, value |-> obj, calls |-> <<obj.text>>]
    ELSE [thrown |-> {}, value |-> obj, calls |-> <<obj.text>>]

\* sanitizeString: the detector is asked about a text that is not empty; a
\* detection throws SensitiveDataException, and the text is returned as it
\* is otherwise, also when the detector's call fails
sanitizeString(obj, answers) ==
    IF obj.text = ""
    THEN [thrown |-> {}, value |-> obj, calls |-> <<>>]
    ELSE IF answers[obj.text] = "email"
    THEN [thrown |-> {"email"}, value |-> obj, calls |-> <<obj.text>>]
    ELSE [thrown |-> {}, value |-> obj, calls |-> <<obj.text>>]

RECURSIVE sanitizeRecursive(_, _), sanitizeItems(_, _)
\* sanitizeRecursive: a string is sanitised, an array and an object are built
\* anew from their sanitised members, anything else is returned
sanitizeRecursive(obj, answers) ==
    IF obj.kind = "string" THEN sanitizeString(obj, answers)
    ELSE IF obj.kind \in {"array", "object"}
    THEN LET r == sanitizeItems(obj.kids, answers)
         IN  [thrown |-> r.thrown, calls |-> r.calls,
              value |-> [kind |-> obj.kind, text |-> "", kids |-> r.values,
                         keys |-> obj.keys]]
    ELSE [thrown |-> {}, value |-> obj, calls |-> <<>>]

\* the for loops of sanitizeRecursive: member after member, until one throws
sanitizeItems(items, answers) ==
    IF items = <<>> THEN [thrown |-> {}, calls |-> <<>>, values |-> <<>>]
    ELSE LET h == sanitizeRecursive(Head(items), answers)
         IN  IF h.thrown # {}
             THEN [thrown |-> h.thrown, calls |-> h.calls, values |-> <<>>]
             ELSE LET t == sanitizeItems(Tail(items), answers)
                  IN  [thrown |-> t.thrown, calls |-> h.calls \o t.calls,
                       values |-> <<h.value>> \o t.values]

\* `!data`: null, the empty string and 0
Falsy(data) ==
    \/ data.kind = "null"
    \/ data.kind = "string" /\ data.text = ""
    \/ data.kind = "number" /\ data.text = "0"

\* sanitizeData: input is the caller's value after the call, which works on
\* a clone
sanitizeData(data, answers) ==
    IF Falsy(data)
    THEN [input |-> data, thrown |-> {}, value |-> data, calls |-> <<>>]
    ELSE LET r == sanitizeRecursive(JsonClone(data), answers)
         IN  [input |-> data, thrown |-> r.thrown, value |-> r.value,
              calls |-> r.calls]

InitSanitize ==
    /\ now = 0
    /\ rateLimitStore = EmptyStore
    /\ rlConfig = EnvConfig
    /\ win = NoWin
    /\ burst = NoBurst
    /\ flags = AllEnabled
    /\ req = [r \in Reqs |-> IdleReq]
    /\ cacheStore = EmptyStore
    /\ UnitInit

\* a body arrives, and the detector will answer as in answers
SanArrive ==
    /\ san.pc = "idle"
    /\ \E data \in SanBodies, answers \in SanAnswers :
          san' = [san EXCEPT !.pc = "arrived", !.data = data, !.answers = answers]
    /\ UNCHANGED <<now, rateLimitStore, rlConfig, win, burst, flags, req, hdr, cacheStore,
                   pol, cacheStats, gets, outb, audit, mon, env, stat, call, emit, sq>>

\* sanitizeData(body)
SanCall ==
    /\ san.pc = "arrived"
    /\ san' = [san EXCEPT !.pc = "returned",
                          !.result = sanitizeData(san.data, san.answers)]
    /\ UNCHANGED <<now, rateLimitStore, rlConfig, win, burst, flags, req, hdr, cacheStore,
                   pol, cacheStats, gets, outb, audit, mon, env, stat, call, emit, sq>>

\* sanitizeData on what the caller holds after the first call
SanAgain ==
    /\ san.pc = "returned"
    /\ san' = [san EXCEPT !.pc = "again",
                          !.again = sanitizeData(san.result.input, san.answers)]
    /\ UNCHANGED <<now, rateLimitStore, rlConfig, win, burst, flags, req, hdr, cacheStore,
                   pol, cacheStats, gets, outb, audit, mon, env, stat, call, emit, sq>>

NextSanitize == SanArrive \/ SanCall \/ SanAgain

SpecSanitize == InitSanitize /\ [][NextSanitize]_vars

-----------------------------------------------------------------------------
(* SpecStats: LoggingService.getStatistics while log rows are saved *)

StatProviders == {"openai", "anthropic"}
SavedActions == {"PROXIED", "BLOCKED_TIME"}

\* repository.count({ where })
CountWhere(rows, action) == Cardinality({row \in rows : row.action = action})

\* SELECT provider, COUNT(*) .. GROUP BY provider
GroupByProvider(rows) ==
    [p \in {row.provider : row \in rows} |->
        Cardinality({row \in rows : row.provider = p})]

InitStats ==
    /\ now = 0
    /\ rateLimitStore = EmptyStore
    /\ rlConfig = EnvConfig
    /\ win = NoWin
    /\ burst = NoBurst
    /\ flags = AllEnabled
    /\ req = [r \in Reqs |-> IdleReq]
    /\ cacheStore = EmptyStore
    /\ UnitInit

\* repository.save of one log row
StatSave ==
    /\ Cardinality(sq.rows) < MaxRows
    /\ \E action \in SavedActions, provider \in StatProviders :
          sq' = [sq EXCEPT !.rows = @ \cup {[id |-> Cardinality(sq.rows) + 1,
                                              action |-> action,
                                              provider |-> provider]}]
    /\ UNCHANGED <<now, rateLimitStore, rlConfig, win, burst, flags, req, hdr, cacheStore,
                   pol, cacheStats, gets, outb, audit, mon, env, stat, call, emit, san>>

\* getStatistics: total = await repository.count()
StatTotal ==
    /\ sq.pc \in {"idle", "returned"}
    /\ sq' = [sq EXCEPT !.pc = "actions", !.i = 1,
                        !.total = Cardinality(sq.rows),
                        !.byAction = [a \in {} |-> 0],
                        !.byProvider = [p \in {} |-> 0]]
    /\ UNCHANGED <<now, rateLimitStore, rlConfig, win, burst, flags, req, hdr, cacheStore,
                   pol, cacheStats, gets, outb, audit, mon, env, stat, call, emit, san>>

\* getStatistics: byAction[action] = await repository.count({ where }), one
\* query for each value of the enum
StatAction ==
    /\ sq.pc = "actions"
    /\ LET action == RequestActionValues[sq.i]
           counted == [a \in (DOMAIN sq.byAction) \cup {action} |->
                         IF a = action THEN CountWhere(sq.rows, action)
                         ELSE sq.byAction[a]]
       IN  sq' = [sq EXCEPT !.byAction = counted,
                            !.i = @ + 1,
                            !.pc = IF sq.i = Len(RequestActionValues)
                                   THEN "providers" ELSE "actions"]
    /\ UNCHANGED <<now, rateLimitStore, rlConfig, win, burst, flags, req, hdr, cacheStore,
                   pol, cacheStats, gets, outb, audit, mon, env, stat, call, emit, san>>

\* getStatistics: the group-by query answers and the result is returned
StatProvider ==
    /\ sq.pc = "providers"
    /\ sq' = [sq EXCEPT !.byProvider = GroupByProvider(sq.rows),
                        !.pc = "returned"]
    /\ UNCHANGED <<now, rateLimitStore, rlConfig, win, burst, flags, req, hdr, cacheStore,
                   pol, cacheStats, gets, outb, audit, mon, env, stat, call, emit, san>>

NextStats == StatSave \/ StatTotal \/ StatAction \/ StatProvider

SpecStats == InitStats /\ [][NextStats]_vars

-----------------------------------------------------------------------------
\* C4: for every identity and every order of isAllowed calls, with any of the
\* costs a request can have, the bucket satisfies 0 <= tokens <= maxTokens.
C4_BucketBound ==
    \A ip \in DOMAIN rateLimitStore :
        /\ 0 <= rateLimitStore[ip].tokens
        /\ rateLimitStore[ip].tokens <= rlConfig.maxTokens

\* one bucket was refilled and then drained to zero, another was left idle
\* long enough for the refill to reach the capacity and debited 1 after it
C4_Witness ==
    \E ip, other \in DOMAIN rateLimitStore :
        /\ rateLimitStore[ip].tokens = 0
        /\ rateLimitStore[ip].lastRefill > 0
        /\ rateLimitStore[other].tokens = rlConfig.maxTokens - 1
        /\ rateLimitStore[other].lastRefill = MaxNowRL

\* C5 as claimed: the cost debited in a window of length T is at most
\* maxTokens + floor(T / refillInterval) * refillRate, and the refill step adds
\* floor(elapsed / refillInterval) * refillRate tokens.
C5_Original ==
    /\ win.open =>
          win.sum <= rlConfig.maxTokens
                     + ((now - win.start) \div rlConfig.refillInterval)
                       * rlConfig.refillRate
    /\ \A ip \in DOMAIN rateLimitStore :
          TokensToAdd(now - rateLimitStore[ip].lastRefill)
            = ((now - rateLimitStore[ip].lastRefill) \div rlConfig.refillInterval)
              * rlConfig.refillRate

C5_WindowBound ==
    win.open =>
        win.sum <= rlConfig.maxTokens
                   + ((now - win.start) * rlConfig.refillRate)
                     \div rlConfig.refillInterval

Costs == {getTokensRequired(p, m) : p \in Paths, m \in Methods}

C5_RefillStep ==
    \A ip \in (DOMAIN rateLimitStore) \cap (DOMAIN rateLimitStore') :
        LET old == rateLimitStore[ip]
            new == rateLimitStore'[ip]
            elapsed == now - old.lastRefill
        IN  IF new.lastRefill # old.lastRefill
            THEN /\ new.lastRefill = now
                 /\ elapsed * rlConfig.refillRate >= rlConfig.refillInterval
                 /\ \E c \in Costs \cup {0} :
                       new.tokens
                         = Min(rlConfig.maxTokens,
                               old.tokens
                               + (elapsed * rlConfig.refillRate)
                                 \div rlConfig.refillInterval) - c
            ELSE new.tokens <= old.tokens

\* C5 (amended): the cost debited in a window of length T is at most
\* maxTokens + floor(T * refillRate / refillInterval); a refill adds
\* floor(elapsed * refillRate / refillInterval) tokens, capped at maxTokens,
\* and happens as soon as that amount is at least one token.
C5_Conservation == [](C5_WindowBound) /\ [][C5_RefillStep]_vars

\* the bound is reached, with tokens refilled before a whole interval elapsed
C5_Witness ==
    /\ win.open
    /\ now - win.start < rlConfig.refillInterval
    /\ win.sum > rlConfig.maxTokens
    /\ win.sum = rlConfig.maxTokens
                 + ((now - win.start) * rlConfig.refillRate)
                   \div rlConfig.refillInterval

-----------------------------------------------------------------------------
\* C6: from a fresh identity with the defaults (100 tokens, 10 per 1000 ms),
\* of the POSTs to a chat endpoint issued within one refill interval of the
\* first exactly the first 10 pass and every later one is answered 429; a POST
\* issued 1000 ms or more after the previous one passes.
C6_Exhaustion ==
    /\ (burst.issued > 0 /\ now - burst.first < 1000) =>
          /\ burst.passed = Min(burst.issued, 10)
          /\ (burst.issued > 10 => burst.status = 429)
    /\ (burst.issued > 0 /\ now - burst.lastCall >= 1000) =>
          isAllowedResult(rateLimitStore, "X", 10, now)

\* ten passed, the eleventh was rejected, the twelfth passed after the pause
C6_Witness ==
    /\ burst.issued = 12
    /\ burst.passed = 11
    /\ burst.status = 0
    /\ burst.lastCall - burst.first >= 1000

-----------------------------------------------------------------------------
(* Spec: what a finished request looks like *)

Done(r) == req[r].pc = "done"

Range(f) == {f[i] : i \in DOMAIN f}

StageCalls ==
    {"isAllowed", "clock", "sanitizer", "classifier", "cacheGet", "upstream",
     "cacheSet"}

Rank(c) ==
    CASE c = "isAllowed" -> 1
      [] c = "clock" -> 2
      [] c = "sanitizer" -> 3
      [] c = "classifier" -> 4
      [] c = "cacheGet" -> 5
      [] c = "upstream" -> 6
      [] c = "cacheSet" -> 7
      [] OTHER -> 0

\* the terminal outcome, read off the answer the caller got
Outcome(q) ==
    IF q.response.status = 429 THEN "BLOCKED_RATE_LIMIT"
    ELSE IF q.response.code = "TIME_BLOCKED" THEN "BLOCKED_TIME"
    ELSE IF q.response.code = "SENSITIVE_DATA_BLOCKED" THEN "BLOCKED_SENSITIVE_DATA"
    ELSE IF q.response.code = "FINANCIAL_BLOCKED" THEN "BLOCKED_FINANCIAL"
    ELSE IF "respond" \in Range(q.trail) /\ "upstream" \notin Range(q.trail)
    THEN "SERVED_FROM_CACHE"
    ELSE "PROXIED"

\* the request ended in an error that is no documented short-circuit
Faulted(q) ==
    /\ q.pc = "done"
    /\ "respond" \notin Range(q.trail)
    /\ \A i \in DOMAIN q.logs : q.logs[i].action \notin blockedActions

\* C1: every finished request has exactly one audit record, and its action is
\* the terminal outcome.
C1_SingleRecord ==
    \A r \in Reqs :
        Done(r) =>
            /\ Len(req[r].logs) = 1
            /\ req[r].logs[1].action = Outcome(req[r])

\* the calls a request with this recorded action must not have made
LaterCalls(action) ==
    CASE action = "BLOCKED_RATE_LIMIT" ->
            {"clock", "sanitizer", "classifier", "cacheGet", "upstream", "cacheSet"}
      [] action = "BLOCKED_TIME" ->
            {"sanitizer", "classifier", "cacheGet", "upstream", "cacheSet"}
      [] action = "BLOCKED_SENSITIVE_DATA" ->
            {"classifier", "cacheGet", "upstream", "cacheSet"}
      [] action = "BLOCKED_FINANCIAL" -> {"cacheGet", "upstream", "cacheSet"}
      [] action = "SERVED_FROM_CACHE" -> {"upstream", "cacheSet"}
      [] OTHER -> {}

\* C2: a request short-circuited at a stage runs no later stage, and a request
\* served from cache makes no upstream call.
C2_NoLaterStage ==
    \A r \in Reqs :
        \A i \in DOMAIN req[r].logs :
            LaterCalls(req[r].logs[i].action) \cap Range(req[r].trail) = {}

\* a chat request with sensitive and financial content stopped by the time gate
C2_Witness ==
    \E r \in Reqs :
        /\ Done(r)
        /\ req[r].action = "BLOCKED_TIME"
        /\ req[r].path = "/v1/chat/completions"
        /\ req[r].body = "emailbank"

StageOf(action) ==
    CASE action = "BLOCKED_RATE_LIMIT" -> "isAllowed"
      [] action = "BLOCKED_TIME" -> "clock"
      [] action = "BLOCKED_SENSITIVE_DATA" -> "sanitizer"
      [] action = "BLOCKED_FINANCIAL" -> "classifier"
      [] OTHER -> ""

LastStageCall(q) ==
    LET idx == {i \in DOMAIN q.trail : q.trail[i] \in StageCalls}
    IN  IF idx = {} THEN ""
        ELSE q.trail[CHOOSE i \in idx : \A j \in idx : j <= i]

\* C3: the stages run in the order rate limit, time gate, sanitisation,
\* policy, cache lookup, upstream; the recorded action of a rejected request is
\* the one of the first stage that rejected it, which is the last stage it ran.
C3_StageOrder ==
    \A r \in Reqs :
        LET q == req[r]
        IN  /\ \A i, j \in DOMAIN q.trail :
                  (i < j /\ q.trail[i] \in StageCalls /\ q.trail[j] \in StageCalls)
                      => Rank(q.trail[i]) < Rank(q.trail[j])
            /\ \A i \in DOMAIN q.logs :
                  q.logs[i].action \in blockedActions =>
                      /\ q.action = q.logs[i].action
                      /\ LastStageCall(q) = StageOf(q.logs[i].action)
                      /\ q.pc = "done"
                      /\ Outcome(q) = q.logs[i].action

\* a request with financial content that the rate limiter rejected
C3_Witness ==
    \E r \in Reqs :
        /\ Done(r)
        /\ req[r].action = "BLOCKED_RATE_LIMIT"
        /\ IsChatPath(req[r].path)
        /\ hasFinancialKeywords(extractContentForClassification(req[r].body))

\* C7: the error body of every blocked or fatal answer has the code and the
\* status of its outcome, and distinct outcomes have distinct codes.
C7_ErrorCodes ==
    \A r \in Reqs :
        LET q == req[r]
        IN  Done(r) =>
              /\ q.action = "BLOCKED_RATE_LIMIT" =>
                    q.response.code = "BLOCKED_RATE_LIMIT" /\ q.response.status = 429
              /\ q.action = "BLOCKED_TIME" =>
                    q.response.code = "TIME_BLOCKED" /\ q.response.status = 403
              /\ q.action = "BLOCKED_SENSITIVE_DATA" =>
                    q.response.code = "SENSITIVE_DATA_BLOCKED"
                    /\ q.response.status = 403
              /\ q.action = "BLOCKED_FINANCIAL" =>
                    q.response.code = "FINANCIAL_BLOCKED" /\ q.response.status = 403
              /\ Faulted(q) =>
                    q.response.code = "INTERNAL_ERROR" /\ q.response.status = 500

C8_FaultRecord ==
    \A r \in Reqs :
        LET q == req[r]
        IN  Faulted(q) =>
              /\ q.response.status = 500
              /\ Len(q.logs) = 1
              /\ q.logs[1].action = "PROXIED"
              /\ q.logs[1].errorMessage =
                    (IF LastStageCall(q) = "upstream" THEN "connect ECONNREFUSED"
                     ELSE "content.trim is not a function")
              /\ "cacheSet" \notin Range(q.trail)

C8_FaultStep ==
    \A r \in Reqs :
        (~Faulted(req[r]) /\ Faulted(req'[r])) =>
            /\ \A o \in Reqs \ {r} : req'[o] = req[o]
            /\ cacheStore' = cacheStore
            /\ rateLimitStore' = rateLimitStore

\* C8: a request that fails at the upstream transport, or in a stage with an
\* error that is no documented short-circuit, is answered 500 and logged once
\* as PROXIED with the cause as errorMessage; nothing is cached for it, and the
\* failing step changes no other request.
C8_FaultContained == [](C8_FaultRecord) /\ [][C8_FaultStep]_vars

\* a transport failure while the other request is in flight
C8_Witness ==
    \E r, o \in Reqs :
        /\ r # o
        /\ Faulted(req[r])
        /\ LastStageCall(req[r]) = "upstream"
        /\ req[o].pc \notin {"idle", "done"}

Proxied(q) ==
    q.pc = "done" /\ "upstream" \in Range(q.trail) /\ "respond" \in Range(q.trail)

C10_GateStep ==
    \A r \in Reqs :
        (flags.timeBlocking /\ req[r].pc = "timeGate" /\ req'[r].pc # "timeGate") =>
            IF getSeconds(now) \in {1, 2, 7, 8}
            THEN /\ req'[r].pc = "done"
                 /\ req'[r].action = "BLOCKED_TIME"
                 /\ req'[r].response.status = 403
                 /\ req'[r].response.code = "TIME_BLOCKED"
            ELSE /\ req'[r].pc = "sanitize"
                 /\ req'[r].action = "PROXIED"
                 /\ req'[r].response = NoResponse

\* C10: with time-based blocking enabled, a request at the time gate is
\* rejected with BLOCKED_TIME / 403 exactly when the second of the minute is
\* 1, 2, 7 or 8, whatever its method and endpoint; otherwise it goes on.
C10_TimeGate == [][C10_GateStep]_vars

\* GET /v1/models blocked at second 7
C10_Witness ==
    \E r \in Reqs :
        /\ Done(r)
        /\ req[r].action = "BLOCKED_TIME"
        /\ req[r].method = "GET"
        /\ req[r].path = "/v1/models"
        /\ getSeconds(now) = 7
        /\ \E o \in Reqs : req[o].method = "GET" /\ req[o].path = "/v1/models"
                            /\ req[o].pc = "sanitize"

-----------------------------------------------------------------------------
C11_SanitizeStep ==
    \A r \in Reqs :
        (/\ req[r].pc = "sanitize"
         /\ req'[r].pc # "sanitize"
         /\ flags.sanitization
         /\ IsChatPath(req[r].path)
         /\ req[r].body # "null") =>
            /\ req'[r].detected \subseteq {"email", "ipv4", "iban"}
            /\ IF req'[r].detected # {}
               THEN /\ req'[r].pc = "done"
                    /\ req'[r].action = "BLOCKED_SENSITIVE_DATA"
                    /\ req'[r].response.status = 403
                    /\ req'[r].response.code = "SENSITIVE_DATA_BLOCKED"
                    /\ req'[r].response.details = req'[r].detected
                    /\ req'[r].sent = "none"
               ELSE /\ req'[r].pc = "policy"
                    /\ req'[r].action = "PROXIED"
                    /\ req'[r].sanitizedBody = req[r].body

C11_PassedOn ==
    \A r \in Reqs :
        /\ req[r].sent # "none" => req[r].sent = req[r].body
        /\ req[r].pc \in {"policy", "cacheLookup", "dispatch", "respond"} =>
              req[r].sanitizedBody = req[r].body
        /\ req[r].detected # {} =>
              (req[r].pc = "done" /\ "upstream" \notin Range(req[r].trail))

C12_NoSensitivePayload ==
    \A r \in Reqs :
        \A i \in DOMAIN req[r].logs :
            SensitiveTypes(req[r].logs[i].payload) = {}

C13_FaultStep ==
    \A r \in Reqs :
        /\ ("detector" \in req'[r].faults /\ "detector" \notin req[r].faults) =>
              /\ req'[r].detected = {}
              /\ req'[r].pc = "policy"
              /\ req'[r].sanitizedBody = req[r].body
              /\ req'[r].response = NoResponse
              /\ req'[r].action = "PROXIED" /\ req'[r].errorMessage = ""
        /\ ("classifier" \in req'[r].faults /\ "classifier" \notin req[r].faults) =>
              LET kw == hasFinancialKeywords(
                            extractContentForClassification(req[r].sanitizedBody))
              IN  IF kw
                  THEN req'[r].pc = "done" /\ req'[r].action = "BLOCKED_FINANCIAL"
                  ELSE /\ req'[r].pc = "cacheLookup"
                       /\ req'[r].response = NoResponse
                       /\ req'[r].action = "PROXIED"
                       /\ req'[r].errorMessage = ""

\* a finished request that had a classifier fault and got an error answer got
\* it from another cause: a financial rejection, the failure of the upstream
\* call, or a body whose prompt is not a string
C13_NoErrorFromFault ==
    \A r \in Reqs :
        (req[r].pc = "done" /\ req[r].faults # {} /\ req[r].response.code # "") =>
            \/ req[r].action = "BLOCKED_FINANCIAL"
            \/ /\ req[r].errorMessage = "connect ECONNREFUSED"
               /\ LastStageCall(req[r]) = "upstream"
            \/ /\ req[r].errorMessage = "content.trim is not a function"
               /\ ExtractThrows(req[r].body)
               /\ "classifier" \notin req[r].faults

\* C13: when the sanitiser's detection call fails it reports no category and
\* the request goes on to the policy stage; when the policy classifier's call
\* fails the result is the keyword-check result; the caller gets no error
\* caused by either fault.
C13_FaultsAbsorbed == [](C13_NoErrorFromFault) /\ [][C13_FaultStep]_vars

\* both calls failed for one request, which was then proxied
C13_Witness ==
    \E r \in Reqs :
        /\ req[r].faults = {"detector", "classifier"}
        /\ Proxied(req[r])
        /\ req[r].response.status = 200

-----------------------------------------------------------------------------
\* the call reached checkFinancialContent
Classified ==
    /\ pol.done
    /\ pol.policyEnabled
    /\ pol.content.len >= 10
    /\ pol.content.len <= 1000

\* C14: checkFinancialContent returns true without a classifier call when the
\* text has a dictionary keyword; otherwise it returns true exactly when the
\* classifier replies FINANCIAL and, in strict mode on a borderline text, the
\* second pass replies FINANCIAL too; when the classifier call fails it
\* returns the keyword-check result.
C14_IsFinancial ==
    Classified =>
        IF pol.content.kw
        THEN pol.result /\ pol.calls = 0
        ELSE IF pol.reply1 = "error"
        THEN pol.result = pol.content.kw /\ pol.calls = 1
        ELSE /\ pol.calls >= 1
             /\ pol.result <=>
                   /\ pol.reply1 = "FINANCIAL"
                   /\ (pol.strictMode /\ pol.content.borderlineKw
                         /\ ~pol.content.clearKw) => pol.reply2 = "FINANCIAL"

\* a borderline text in strict mode, both passes replied FINANCIAL
C14_Witness ==
    /\ Classified
    /\ ~pol.content.kw /\ pol.content.borderlineKw /\ ~pol.content.clearKw
    /\ pol.strictMode
    /\ pol.reply1 = "FINANCIAL" /\ pol.reply2 = "FINANCIAL"
    /\ pol.result /\ pol.calls = 2

\* the check was skipped: no classification and no block
Skipped == pol.done /\ ~pol.result /\ pol.calls = 0

\* C15 as claimed: with policy enforcement enabled the check is skipped
\* exactly when the text has fewer than 10 or more than 2000 characters.
C15_Original ==
    (pol.done /\ pol.policyEnabled) =>
        (Skipped <=> (pol.content.len < 10 \/ pol.content.len > 2000))

\* C15 (amended): with policy enforcement enabled the check is skipped exactly
\* when the trimmed text has fewer than 10 or more than 1000 characters; every
\* text of 10 to 1000 characters is classified.
C15_LengthGate ==
    (pol.done /\ pol.policyEnabled) =>
        /\ Skipped <=> (pol.content.len < 10 \/ pol.content.len > 1000)
        /\ (pol.content.len >= 10 /\ pol.content.len <= 1000) =>
              (pol.content.kw \/ pol.calls >= 1)

\* a text of 1001 characters with a keyword is let through unclassified
C15_Witness ==
    /\ pol.done /\ pol.policyEnabled
    /\ pol.content.len = 1001
    /\ pol.content.kw
    /\ Skipped

-----------------------------------------------------------------------------
\* o was proxied with an upstream 200 and r is the same benign request
FirstOf(o, r) ==
    /\ Proxied(req[o])
    /\ req[o].upstream.status = 200
    /\ req[o].provider = req[r].provider
    /\ req[o].path = req[r].path
    /\ req[o].body = req[r].body
    /\ req[r].body \in {"benign", "null"}

UpstreamCalls(q) == Cardinality({i \in DOMAIN q.trail : q.trail[i] = "upstream"})

C16_OriginalStep ==
    \A r, o \in Reqs :
        (/\ r # o
         /\ req[r].pc = "cacheLookup" /\ req'[r].pc # "cacheLookup"
         /\ flags.caching /\ IsChatPath(req[r].path)
         /\ now < CACHE_TTL * 1000
         /\ FirstOf(o, r)) =>
            /\ req'[r].response.status = 200
            /\ req'[r].response.body = req[o].upstream.raw
            /\ UpstreamCalls(req'[r]) + UpstreamCalls(req'[o]) = 1
            /\ req'[r].action = "SERVED_FROM_CACHE"

C16_HitStep ==
    \A r, o \in Reqs :
        (/\ r # o
         /\ req[r].pc = "cacheLookup" /\ req'[r].pc # "cacheLookup"
         /\ flags.caching /\ IsChatPath(req[r].path)
         /\ now < CACHE_TTL * 1000
         /\ FirstOf(o, r)) =>
            /\ req'[r].pc = "done"
            /\ req'[r].response.status = 200
            /\ req'[r].response.body = req[o].response.body
            /\ req'[r].response.body = Reserialised(req[o].upstream.raw)
            /\ UpstreamCalls(req'[r]) + UpstreamCalls(req'[o]) = 1
            /\ req'[r].action = "SERVED_FROM_CACHE"
            /\ req'[r].logs # <<>>
            /\ \A i \in DOMAIN req'[r].logs :
                  req'[r].logs[i].action = "SERVED_FROM_CACHE"

-----------------------------------------------------------------------------
\* the last put on the key is still within its ttl (seconds) at this instant
LiveAt(key, t) ==
    /\ key \in DOMAIN cacheStore
    /\ t < cacheStore[key].insertedAt + cacheStore[key].ttl * 1000

\* what a get that found this returns to its caller
Returned(found) == IF found = "error" THEN "null" ELSE found

C17_OriginalStep ==
    \A g \in GetIds :
        (gets[g].pc # "awaiting" /\ gets'[g].pc = "awaiting") =>
            LET key == gets'[g].key
            IN  IF LiveAt(key, now)
                THEN Returned(gets'[g].found) = cacheStore[key].value
                ELSE Returned(gets'[g].found) \notin CacheValues

C17_GetStep ==
    \A g \in GetIds :
        /\ (gets[g].pc # "awaiting" /\ gets'[g].pc = "awaiting") =>
              LET key == gets'[g].key
              IN  /\ gets'[g].found # "error" =>
                        IF LiveAt(key, now)
                        THEN Returned(gets'[g].found) = cacheStore[key].value
                        ELSE Returned(gets'[g].found) \notin CacheValues
                  /\ gets'[g].found = "error" => Returned(gets'[g].found) = "null"
        /\ (gets[g].pc = "awaiting" /\ gets'[g].pc = "returned") =>
              gets'[g].result = Returned(gets[g].found)

C18_StatsConsistent ==
    /\ cacheStats.hits + cacheStats.misses = cacheStats.totalRequests
    /\ cacheStats.hits <= cacheStats.totalRequests

-----------------------------------------------------------------------------
C19_InsertStep ==
    cacheStore' # cacheStore =>
        \E r \in Reqs :
            LET q == req[r]
                key == generateCacheKey(q.provider, q.path, q.sanitizedBody)
            IN  /\ q.pc = "respond" /\ req'[r].pc = "done"
                /\ IsChatPath(q.path)
                /\ q.upstream.status = 200
                /\ flags.caching
                /\ key \in DOMAIN cacheStore'
                /\ cacheStore'[key].value.status = 200
                /\ cacheStore'[key].value.data = q.upstream.data
                /\ \A k \in DOMAIN cacheStore' \ {key} :
                      k \in DOMAIN cacheStore /\ cacheStore'[k] = cacheStore[k]

\* C19: the cache changes only when a response of a cacheable endpoint with
\* upstream status 200 is answered while caching is enabled, the change being
\* the insertion of that response; every entry of the cache has status 200.
C19_CacheInsert ==
    /\ [](\A k \in DOMAIN cacheStore : cacheStore[k].value.status = 200)
    /\ [][C19_InsertStep]_vars

\* one request's 200 was cached, another chat request's 404 or 500 was
\* answered without touching the cache
C19_Witness ==
    \E r, o \in Reqs :
        /\ r # o
        /\ req[o].pc = "done" /\ req[o].upstream.status = 200
        /\ generateCacheKey(req[o].provider, req[o].path, req[o].sanitizedBody)
              \in DOMAIN cacheStore
        /\ req[r].pc = "done" /\ IsChatPath(req[r].path)
        /\ req[r].upstream.status \in {404, 500}
        /\ req[r].response.status = req[r].upstream.status
        /\ \A i \in DOMAIN req[r].trail : req[r].trail[i] # "cacheSet"
        /\ \A k \in DOMAIN cacheStore : cacheStore[k].value.status = 200
-----------------------------------------------------------------------------
\* the spellings, among the names an upstream uses here, of the five headers
\* that are never forwarded
HopByHopSpellings ==
    {"transfer-encoding", "Content-Length", "Connection", "Keep-Alive",
     "content-encoding"}

\* C20: an answer, from the upstream or from the cache, sets none of the
\* upstream's transfer-encoding, content-length, connection, keep-alive and
\* content-encoding headers however they are spelled, and sets every other
\* string-valued upstream header with the upstream's name and value.
C20_Headers ==
    hdr.pc = "sent" =>
        /\ \A h \in hdr.sent : h.name \notin HopByHopSpellings
        /\ \A h \in hdr.upstream :
              (h.kind = "string" /\ h.name \notin HopByHopSpellings) =>
                  h \in hdr.sent
        /\ hdr.sent \subseteq hdr.upstream

\* a cached answer whose upstream sent Content-Length, Connection, a request
\* id and a repeated set-cookie: only the request id of these is set
C20_Witness ==
    /\ hdr.pc = "sent" /\ hdr.from = "cache"
    /\ \E h \in hdr.upstream : h.name = "Content-Length"
    /\ \E h \in hdr.upstream : h.name = "Connection"
    /\ \E h \in hdr.upstream : h.name = "set-cookie"
    /\ \E h \in hdr.sent : h.name = "X-Request-Id" /\ h.value = "abc"
    /\ \A h \in hdr.sent : h.name \in {"X-Request-Id", "content-type"}
-----------------------------------------------------------------------------
\* the inbound headers h with the client's credentials replaced
WithCredentials(h, au, xk) ==
    [name \in DOMAIN h |->
        IF name = "authorization" THEN au
        ELSE IF name = "x-api-key" THEN xk
        ELSE h[name]]

\* the names, as sent, of the headers copied from the client
WhitelistedSpellings ==
    {"content-type", "Content-Type", "user-agent", "User-Agent", "accept", "Accept",
     "cache-control", "Cache-Control", "pragma", "Pragma"}

\* the value the client gave the whitelisted header sent under this name
ClientValue(h, name) ==
    CASE name \in {"content-type", "Content-Type"} -> h["content-type"]
      [] name \in {"user-agent", "User-Agent"} -> h["user-agent"]
      [] name \in {"accept", "Accept"} -> h["accept"]
      [] name \in {"pragma", "Pragma"} -> h["pragma"]
      [] OTHER -> ""

\* C21: the request sent to the provider carries the provider's configured
\* credential (Authorization: Bearer <key> for openai; x-api-key: <key> and
\* anthropic-version: 2023-06-01 for anthropic); every other header sent is a
\* whitelisted inbound header with the client's value or a header the proxy
\* sets itself; no credential value of the client is sent; and the headers
\* sent do not depend on the client's credentials.
C21_OutboundHeaders ==
    outb.pc = "sent" =>
        LET key == IF outb.provider = "openai" THEN "sk-openai-configured"
                   ELSE "sk-ant-configured"
            proxySet ==
                {[name |-> "Accept-Encoding", value |-> "identity"],
                 [name |-> "Host", value |-> "api.provider.example"],
                 [name |-> "Content-Type", value |-> "application/json"]}
            credential ==
                IF outb.provider = "openai"
                THEN {[name |-> "Authorization",
                       value |-> "Bearer sk-openai-configured"]}
                ELSE {[name |-> "x-api-key", value |-> "sk-ant-configured"],
                      [name |-> "anthropic-version", value |-> "2023-06-01"]}
        IN  /\ credential \subseteq outb.sent
            /\ \A h \in outb.sent \ (credential \cup proxySet) :
                  /\ h.name \in WhitelistedSpellings
                  /\ h.value # ""
                  /\ h.value = ClientValue(outb.inbound, h.name)
            /\ \A h \in outb.sent :
                  h.value \notin {"Bearer client-1", "Bearer client-2", "client-1"}
            /\ \A au \in InboundValues("authorization"),
                  xk \in InboundValues("x-api-key") :
                  RequestHeaders(
                      prepareHeaders(WithCredentials(outb.inbound, au, xk),
                                     outb.provider, key)) = outb.sent

\* a client of the anthropic route sends its own Authorization and x-api-key
\* with a user-agent and a cookie: the user-agent goes out, with the
\* configured x-api-key
C21_Witness ==
    /\ outb.pc = "sent" /\ outb.provider = "anthropic"
    /\ outb.inbound["authorization"] = "Bearer client-1"
    /\ outb.inbound["x-api-key"] = "client-1"
    /\ outb.inbound["cookie"] = "sid=1"
    /\ outb.inbound["user-agent"] = "curl/8"
    /\ [name |-> "user-agent", value |-> "curl/8"] \in outb.sent
    /\ [name |-> "x-api-key", value |-> "sk-ant-configured"] \in outb.sent
-----------------------------------------------------------------------------
\* the call of logRequest for r returns in this step
C22_LogReturns(r) == ~audit.calls[r].logged /\ audit'.calls[r].logged

\* a store write fails in this step
C22_WriteFails ==
    /\ audit.immediates # <<>>
    /\ audit'.immediates = Tail(audit.immediates)
    /\ Head(audit.immediates).saveFails

C22_Step ==
    /\ \A r \in Reqs :
          C22_LogReturns(r) =>
              /\ \A l \in audit'.saved : l.of # r
              /\ audit'.saved = audit.saved
    /\ C22_WriteFails =>
          /\ audit'.calls = audit.calls
          /\ audit'.saved = audit.saved

\* C22: when logRequest returns to the request path the record has not been
\* written to the store (the write is a later step of its own); a failing
\* store write changes no request, and every answered request has the
\* status of its outcome whatever happened to the writes.
C22_AuditAsync ==
    /\ [][C22_Step]_vars
    /\ [](\A r \in Reqs :
            audit.calls[r].answered # 0 =>
                audit.calls[r].answered = audit.calls[r].status)

\* the write of r1's record failed, r1 was answered with its status, and the
\* record of r2, a blocked request, was written after r2 was answered
C22_Witness ==
    /\ audit.stderr = 1
    /\ audit.calls["r1"].logged /\ audit.calls["r1"].answered = 200
    /\ \A l \in audit.saved : l.of # "r1"
    /\ audit.calls["r2"].answered = 403
    /\ [of |-> "r2", action |-> "BLOCKED_TIME"] \in audit.saved
    /\ audit.immediates = <<>>
-----------------------------------------------------------------------------
\* the request-events published for a request
Events(q) == {i \in DOMAIN q.trail : q.trail[i] = "event"}

\* C23: every completed request has published exactly one request-event,
\* whatever its outcome (rejection, cache hit, proxied, upstream error
\* response, transport failure).
C23_OneEvent ==
    \A r \in Reqs : req[r].pc = "done" => Cardinality(Events(req[r])) = 1

-----------------------------------------------------------------------------
\* C24: the request-event of a request is published only after logRequest
\* was called for that request, on every path.
C24_LogBeforeEvent ==
    \A r \in Reqs :
        \A i \in Events(req[r]) :
            \E j \in DOMAIN req[r].trail : j < i /\ req[r].trail[j] = "log"
-----------------------------------------------------------------------------
\* a snapshot of the timer is broadcast in this step
C25_Broadcast == mon'.emitted # mon.emitted

C25_Step ==
    (C25_Broadcast /\ mon'.resets = 0) =>
        /\ mon'.emitted.tick > mon.emitted.tick
        /\ mon'.emitted.total >= mon.emitted.total

\* C25: without a reset of the log table, the snapshots of the timer are
\* broadcast in tick order and with non-decreasing totals.total, also when
\* one snapshot is still waiting on the store as the next tick fires.
C25_TickOrder == [][C25_Step]_vars

-----------------------------------------------------------------------------
\* C26: the recent-activity series never holds more than 20 samples, no
\* sample is negative, a total lower than the one seen before is recorded as
\* 0, and appending to 20 samples drops the oldest.
C26_ActivitySeries ==
    /\ [](/\ Len(mon.requestActivityData) <= 20
          /\ \A i \in DOMAIN mon.requestActivityData :
                mon.requestActivityData[i] >= 0)
    /\ [][mon'.ticks # mon.ticks =>
            LET old == mon.requestActivityData
                new == mon'.requestActivityData
            IN  /\ new[Len(new)] =
                      IF mon.rows < mon.lastTotalRequests THEN 0
                      ELSE mon.rows - mon.lastTotalRequests
                /\ IF Len(old) = 20
                   THEN /\ Len(new) = 20
                        /\ \A i \in 1..19 : new[i] = old[i + 1]
                   ELSE /\ Len(new) = Len(old) + 1
                        /\ \A i \in 1..Len(old) : new[i] = old[i]]_vars

\* the series is full, its newest sample is the 0 recorded after a reset, and
\* the sample of a new row is still in it
C26_Witness ==
    /\ Len(mon.requestActivityData) = 20
    /\ mon.ticks > 20
    /\ mon.resets = 1
    /\ mon.requestActivityData[20] = 0
    /\ mon.lastTotalRequests = 0
    /\ \E i \in 1..19 : mon.requestActivityData[i] > 0
-----------------------------------------------------------------------------
\* C27: a request handed to the upstream ends, at the latest when the
\* deadline of the upstream call passes, with a response and a logged
\* AuditRecord, also when the upstream never answers.
C27_Deadline ==
    \A r \in Reqs :
        (req[r].pc = "dispatch") ~>
            (req[r].pc = "done" /\ req[r].response.status # 0 /\ req[r].logs # <<>>)
-----------------------------------------------------------------------------
\* C28: with ENABLE_RATE_LIMITING, ENABLE_TIME_BASED_BLOCKING,
\* ENABLE_DATA_SANITIZATION or ENABLE_POLICY_ENFORCEMENT set to false no
\* request is rejected with BLOCKED_RATE_LIMIT, BLOCKED_TIME,
\* BLOCKED_SENSITIVE_DATA or BLOCKED_FINANCIAL respectively; with
\* ENABLE_CACHING set to false nothing is served from or put into the cache.
C28_Flags ==
    \A r \in Reqs :
        /\ env.rateLimiting = "false" => req[r].action # "BLOCKED_RATE_LIMIT"
        /\ env.timeBlocking = "false" => req[r].action # "BLOCKED_TIME"
        /\ env.sanitization = "false" => req[r].action # "BLOCKED_SENSITIVE_DATA"
        /\ env.policy = "false" => req[r].action # "BLOCKED_FINANCIAL"
        /\ env.caching = "false" =>
              (req[r].action # "SERVED_FROM_CACHE" /\ cacheStore = EmptyStore)
-----------------------------------------------------------------------------
\* C29: a status call leaves the bucket map as it is (no bucket is created
\* for an unknown identity, for which it reports remaining = max_tokens) and
\* reports as remaining what isAllowed at the same instant would have in the
\* bucket before debiting.
C29_StatusReadOnly ==
    [][stat'.n # stat.n =>
        /\ rateLimitStore' = rateLimitStore
        /\ stat'.ip \notin DOMAIN rateLimitStore =>
              stat'.remaining = rlConfig.maxTokens
        /\ stat'.remaining =
              Refilled(InfoOf(rateLimitStore, stat'.ip, now), now).tokens
        /\ stat'.maxTokens = rlConfig.maxTokens]_vars

\* a status of X read 3 ms after its bucket was emptied to 0 reports the one
\* token refilled since, with the bucket still at 0; an unknown identity has
\* no bucket
C29_Witness ==
    /\ stat.n = 1 /\ stat.ip = "X"
    /\ "X" \in DOMAIN rateLimitStore
    /\ rateLimitStore["X"].tokens = 0
    /\ now - rateLimitStore["X"].lastRefill = 3
    /\ stat.remaining = 1
    /\ "Z" \notin DOMAIN rateLimitStore

-----------------------------------------------------------------------------
\* C30: a bucket whose last refill is more than 24 hours old is removed from
\* the bucket map in the end by the periodic sweep.
C30_Sweep ==
    \A ip \in Identities :
        (/\ ip \in DOMAIN rateLimitStore
         /\ now - rateLimitStore[ip].lastRefill > 24 * 60 * 60 * 1000)
            ~> (ip \notin DOMAIN rateLimitStore)
-----------------------------------------------------------------------------
\* C31: the lastRefill of a bucket never decreases over a call of isAllowed,
\* accepted or rejected, refilling or not, also when the clock has not moved
\* since the previous call.
C31_RefillMonotone ==
    [][call'.n # call.n /\ call'.op = "isAllowed" =>
        \A ip \in (DOMAIN rateLimitStore) \cap (DOMAIN rateLimitStore') :
            rateLimitStore'[ip].lastRefill >= rateLimitStore[ip].lastRefill]_vars

\* a rejected call at the instant of the bucket's last refill: nothing was
\* refilled and the clock had not moved
C31_Witness ==
    /\ call.op = "isAllowed" /\ ~call.ok
    /\ call.ip \in DOMAIN rateLimitStore
    /\ rateLimitStore[call.ip].lastRefill = now
    /\ now = 4
    /\ rateLimitStore[call.ip].tokens < call.cost
-----------------------------------------------------------------------------
\* C33: a call of isAllowed that returns false debits nothing: the bucket it
\* stores holds min(maxTokens, tokens before + tokens added) and the lastRefill
\* the refill advanced to; a call that returns true stores that amount less
\* the cost.
C33_RejectKeepsRefill ==
    [][call'.n # call.n /\ call'.op = "isAllowed" =>
        LET ip == call'.ip
            before == IF ip \in DOMAIN rateLimitStore THEN rateLimitStore[ip]
                      ELSE [tokens |-> rlConfig.maxTokens, lastRefill |-> now]
            add == ((now - before.lastRefill) * rlConfig.refillRate)
                       \div rlConfig.refillInterval
            filled == Min(rlConfig.maxTokens, before.tokens + add)
            after == rateLimitStore'[ip]
        IN  /\ ip \in DOMAIN rateLimitStore'
            /\ after.lastRefill = IF add > 0 THEN now ELSE before.lastRefill
            /\ call'.ok => after.tokens = filled - call'.cost
            /\ ~call'.ok => after.tokens = filled]_vars

\* a rejected call that refilled the bucket: the tokens added are kept and
\* lastRefill is the instant of the call
C33_Witness ==
    /\ call.op = "isAllowed" /\ ~call.ok
    /\ call.ip \in DOMAIN rateLimitStore
    /\ now = 9
    /\ rateLimitStore[call.ip].lastRefill = now
    /\ rateLimitStore[call.ip].tokens = 4
    /\ call.cost = 5

-----------------------------------------------------------------------------
\* C37: buckets are isolated per identity: a call of isAllowed,
\* getRateLimitStatus or resetRateLimit for one identity leaves the bucket of
\* every other identity as it was (there or not, tokens, lastRefill);
\* resetRateLimit deletes the bucket of its identity, and the next isAllowed of
\* an identity without a bucket starts from maxTokens at the instant of the call.
C37_Isolation ==
    [][call'.n # call.n =>
        LET a == call'.ip
        IN  /\ \A b \in Identities \ {a} :
                  /\ b \in DOMAIN rateLimitStore' <=> b \in DOMAIN rateLimitStore
                  /\ b \in DOMAIN rateLimitStore =>
                        rateLimitStore'[b] = rateLimitStore[b]
            /\ call'.op = "resetRateLimit" => a \notin DOMAIN rateLimitStore'
            /\ call'.op = "getRateLimitStatus" => rateLimitStore' = rateLimitStore
            /\ (call'.op = "isAllowed" /\ a \notin DOMAIN rateLimitStore) =>
                  /\ call'.ok <=> call'.cost <= rlConfig.maxTokens
                  /\ rateLimitStore'[a] =
                        [tokens |-> IF call'.ok
                                    THEN rlConfig.maxTokens - call'.cost
                                    ELSE rlConfig.maxTokens,
                         lastRefill |-> now]]_vars

\* the bucket of one identity was deleted while the other identity keeps a
\* bucket that has been drawn on
C37_Witness ==
    /\ call.op = "resetRateLimit"
    /\ call.ip = "X"
    /\ DOMAIN rateLimitStore = {"Y"}
    /\ rateLimitStore["Y"].tokens < rlConfig.maxTokens
    /\ now > 0
-----------------------------------------------------------------------------
\* C34: the debit of the rate-limit stage is never given back: the stage takes
\* the full cost of a request it lets pass, and no later step of that request
\* (time gate, sanitiser, policy, cache lookup, upstream call, answer) changes
\* the bucket map.
C34_NoRefund ==
    [][\A r \in Reqs :
         LET q == req[r]
             cost == getTokensRequired(q.path, q.method)
         IN  /\ (q.pc = "rateLimit" /\ req'[r].pc = "timeGate"
                    /\ flags.rateLimiting) =>
                   /\ q.ip \in DOMAIN rateLimitStore'
                   /\ rateLimitStore'[q.ip].tokens =
                         Min(rlConfig.maxTokens,
                             InfoOf(rateLimitStore, q.ip, now).tokens
                               + TokensToAdd(now - InfoOf(rateLimitStore, q.ip,
                                                          now).lastRefill))
                           - cost
             /\ (q.pc \notin {"idle", "rateLimit"} /\ req'[r] # q) =>
                   rateLimitStore' = rateLimitStore]_vars

\* both requests of one client passed the rate-limit stage; one was then
\* blocked and the other failed at the upstream, and the bucket is short of
\* both costs
C34_Witness ==
    \E r, o \in Reqs :
        /\ r # o
        /\ Done(r) /\ Done(o)
        /\ req[r].ip = req[o].ip
        /\ req[r].action \in blockedActions \ {"BLOCKED_RATE_LIMIT"}
        /\ Faulted(req[o]) /\ LastStageCall(req[o]) = "upstream"
        /\ "isAllowed" \in Range(req[r].trail)
        /\ "isAllowed" \in Range(req[o].trail)
        /\ req[r].ip \in DOMAIN rateLimitStore
        /\ rateLimitStore[req[r].ip].tokens =
              rlConfig.maxTokens - getTokensRequired(req[r].path, req[r].method)
                                 - getTokensRequired(req[o].path, req[o].method)
-----------------------------------------------------------------------------
\* C32: a request answered from the cache has the provider, the path and the
\* sanitised body of the request whose answer was stored: requests whose
\* bodies differ are never given the same cache key.
C32_SameBody ==
    \A r \in Reqs :
        (Done(r) /\ req[r].action = "SERVED_FROM_CACHE") =>
            \E o \in Reqs \ {r} :
                /\ "cacheSet" \in Range(req[o].trail)
                /\ req[o].provider = req[r].provider
                /\ req[o].path = req[r].path
                /\ req[o].sanitizedBody = req[r].sanitizedBody
-----------------------------------------------------------------------------
\* C35: a failure of the event broadcast is contained: a request whose
\* broadcastRequestEvent threw is still answered as its outcome demands (429
\* for a rate-limit rejection, 403 for the other rejections, the cached
\* response for a cache hit, the upstream's answer when proxied) and has a
\* single audit record, carrying the action of that outcome.
C35_BroadcastContained ==
    \A r \in Reqs :
        LET q == req[r]
        IN  (Done(r) /\ "emitThrows" \in Range(q.trail)) =>
              /\ Len(q.logs) = 1
              /\ q.action = q.logs[1].action
              /\ q.response.status =
                    CASE q.logs[1].action = "BLOCKED_RATE_LIMIT" -> 429
                      [] q.logs[1].action \in
                           blockedActions \ {"BLOCKED_RATE_LIMIT"} -> 403
                      [] q.logs[1].action = "SERVED_FROM_CACHE" -> 200
                      [] OTHER -> q.upstream.status
-----------------------------------------------------------------------------
\* C36: a get counts a hit exactly when it returns an entry (present and not
\* expired) and a miss otherwise, also when the store does not hold the key
\* and when the lookup fails.
C36_HitsAreAnswers ==
    [][\A g \in GetIds :
         (gets[g].pc = "awaiting" /\ gets'[g].pc = "returned") =>
            LET answered == gets'[g].result \in CacheValues
            IN  /\ cacheStats'.hits =
                      cacheStats.hits + (IF answered THEN 1 ELSE 0)
                /\ cacheStats'.misses =
                      cacheStats.misses + (IF answered THEN 0 ELSE 1)]_vars
-----------------------------------------------------------------------------
RECURSIVE SumSeq(_)
SumSeq(s) == IF s = <<>> THEN 0 ELSE Head(s) + SumSeq(Tail(s))

\* C39: the activity series never counts a request twice: while no row was
\* ever deleted, the sum of the samples recorded so far is at most the number
\* of audit rows, which no observed total exceeds, also when the snapshots of
\* the timer and of a new subscriber overlap and finish out of order.
C39_NoDoubleCount ==
    (mon.resets = 0 /\ Len(mon.requestActivityData) < MAX_ACTIVITY_POINTS) =>
        SumSeq(mon.requestActivityData) <= mon.rows
-----------------------------------------------------------------------------
RECURSIVE SumOf(_)
SumOf(f) ==
    IF DOMAIN f = {} THEN 0
    ELSE LET k == CHOOSE x \in DOMAIN f : TRUE
         IN  f[k] + SumOf([x \in (DOMAIN f) \ {k} |-> f[x]])

\* C38: every result of getStatistics is consistent in itself: total is the
\* sum of the counts by action and the sum of the counts by provider, also
\* when log rows are saved while the statistics are queried.
C38_StatsAddUp ==
    sq.pc = "returned" =>
        /\ sq.total = SumOf(sq.byAction)
        /\ sq.total = SumOf(sq.byProvider)
-----------------------------------------------------------------------------
RECURSIVE StringLeaves(_)
\* the texts of the string leaves of a body that are not empty, in the order
\* of the traversal
StringLeaves(data) ==
    IF data.kind = "string"
    THEN (IF data.text = "" THEN <<>> ELSE <<data.text>>)
    ELSE IF data.kids = <<>> THEN <<>>
    ELSE StringLeaves(Head(data.kids))
           \o StringLeaves([data EXCEPT !.kids = Tail(@),
                                         !.keys = IF @ = <<>> THEN @ ELSE Tail(@)])

IsPrefix(a, b) == Len(a) <= Len(b) /\ \A i \in 1..Len(a) : a[i] = b[i]

=============================================================================
